---- MODULE Spec2Model ----
(***************************************************************************)
(* Model of the chess-study-toolkit backend (src/backend): the puzzle      *)
(* extraction engine generate_puzzles_from_games, the puzzle task          *)
(* orchestrator (generate_puzzles_endpoint, run_puzzle_generation_task,    *)
(* get_puzzle_generation_status), the callers of the single Stockfish      *)
(* engine, the opening explorer and the import of games, as they run on    *)
(* the one asyncio event loop of the FastAPI app.                          *)
(***************************************************************************)
EXTENDS Integers, Sequences, FiniteSets, TLC

VARIABLES
    metadata,      \* db_manager.metadata: the ids of the registered databases
    databases,     \* db id -> GameStorage.games, the stored games in insertion order
    puzzle_tasks,  \* main.py puzzle_tasks: task id -> task record
    issued,        \* the task ids returned to callers by generate_puzzles_endpoint
    pending,       \* background tasks added by add_task and not yet started
    scan,          \* call id -> the frame of run_puzzle_generation_task / generate_puzzles_from_games
    loop,          \* which coroutine occupies the event-loop thread (Idle when none)
    engine,        \* stockfish.engine: "None" or "up"
    inflight,      \* the callers currently inside engine.analyse
    handler,       \* the frame of the analyze_position / explorer_query handler on the loop
    response,      \* the last HTTP response sent
    import_tasks,  \* main.py import_tasks: task id -> task record
    import_run     \* task id -> the frame of run_import_task

vars == <<metadata, databases, puzzle_tasks, issued, pending, scan, loop,
          engine, inflight, handler, response, import_tasks, import_run>>

----------------------------------------------------------------------------
(* Bounds of the model *)

\* the number of puzzle tasks started over a run
MaxTasks == 2

\* the number of stored games of one result that open with the same move
MaxSameResult == 3

----------------------------------------------------------------------------
(* Python values *)

\* Optional[...]: None is the empty tuple, a present value x is <<x>>
None == <<>>
Some(x) == <<x>>

\* None where the other values are strings
NoStr == "None"

Min(a, b) == IF a <= b THEN a ELSE b

\* str.lower() on the player names of the model
Lower(s) ==
    CASE s = "Alice" -> "alice"
      [] s = "ALICE" -> "alice"
      [] s = "Bob" -> "bob"
      [] s = "Carl" -> "carl"
      [] OTHER -> s

\* the permutations of a sequence (random.shuffle yields any of them)
Permutations_(s) ==
    { p \in [1..Len(s) -> 1..Len(s)] : \A i, j \in 1..Len(s) : p[i] = p[j] => i = j }

Shuffles(s) == { [i \in 1..Len(s) |-> s[p[i]]] : p \in Permutations_(s) }

\* the injective sequences of k elements of s (random.sample(s, k))
Samples(s, k) ==
    { [i \in 1..k |-> s[p[i]]] :
        p \in { q \in [1..k -> 1..Len(s)] : \A i, j \in 1..k : q[i] = q[j] => i = j } }

----------------------------------------------------------------------------
(* The stored games.  pgn is the mainline of the game's PGN, in UCI. *)

Game(id, w, b, res, ms) ==
    [game_id |-> id, white_player |-> w, black_player |-> b, result |-> res, pgn |-> ms]

\* the database registered with the server
ServerGames ==
    << Game("g1", "Alice", "Bob", "1-0", <<"e2e4", "e7e5">>),
       Game("g2", "Bob", "ALICE", "0-1", <<"d2d4", "d7d5", "c2c4">>),
       Game("g3", "Bob", "Carl", "1/2-1/2", <<"e2e4">>) >>

\* a store whose first game has three plies of the user that all yield a puzzle
CapGames ==
    << Game("g4", "alice", "Bob", "1-0",
            <<"c2c4", "e7e5", "b1c3", "g8f6", "g2g3", "d7d5">>),
       Game("g5", "Bob", "Alice", "0-1", <<"b2b3", "e7e5">>) >>

\* a store of one game, whose positions the engine may score in many ways
RichGames ==
    << Game("g6", "Alice", "Bob", "1-0", <<"g1f3", "d7d5">>) >>

\* a store of one long game: more than five plies of either player
LongGames ==
    << Game("g7", "Alice", "Bob", "1/2-1/2",
            <<"a2a3", "a7a6", "b2b3", "b7b6", "c2c3", "c7c6",
              "d2d3", "d7d6", "e2e3", "e7e6", "f2f3", "f7f6">>) >>

\* a store whose first game records a move that is not legal at ply 3
BadGames ==
    << Game("g8", "Alice", "Bob", "1-0", <<"e2e4", "e7e5", "g1f3", "e1e8", "d2d4">>),
       Game("g9", "Bob", "Alice", "0-1", <<"d2d4", "d7d5">>) >>

StoreGames(db) ==
    CASE db = "db_001" -> ServerGames
      [] db = "db_cap" -> CapGames
      [] db = "db_rich" -> RichGames
      [] db = "db_long" -> LongGames
      [] db = "db_bad" -> BadGames

\* the recorded moves that are not legal where they stand
IllegalMoves == {"e1e8"}

\* list(chess.pgn.read_game(io.StringIO(game.pgn)).mainline_moves()): the parser
\* raises nothing on a move it cannot play; it records the error and reads no
\* further move, so the mainline is the longest legal prefix of the record
RECURSIVE Mainline(_)
Mainline(pgn) ==
    IF Len(pgn) = 0 \/ pgn[1] \in IllegalMoves THEN <<>>
    ELSE <<pgn[1]>> \o Mainline(Tail(pgn))

\* board.turn after ply half-moves from the initial position
Turn(ply) == IF ply % 2 = 0 THEN "white" ELSE "black"

Opposite(color) == IF color = "white" THEN "black" ELSE "white"

----------------------------------------------------------------------------
(* The engine: what engine.analyse may report for the positions of the     *)
(* stored games.  A score is relative to the side to move (PovScore).      *)

\* the scores the engine may give the position before ply `ply` of game `gid`
BeforeScores(gid, ply) ==
    CASE gid = "g1" -> {30}
      [] gid = "g2" -> {-150}
      [] gid = "g4" /\ ply = 0 -> {50}
      [] gid = "g5" -> {0}
      [] gid = "g6" /\ ply = 0 -> {0, 50}
      [] gid = "g6" /\ ply = 1 -> {0, -50}
      [] OTHER -> {0}

\* the first move of the principal variation ("None": the pv is empty)
BestMoves(gid, ply) ==
    CASE gid = "g1" -> {"d2d4"}
      [] gid = "g2" -> {"d7d5"}
      [] gid = "g4" /\ ply = 0 -> {"e2e4"}
      [] gid = "g4" /\ ply = 2 -> {"g1f3"}
      [] gid = "g4" /\ ply = 4 -> {"g2g3"}
      [] gid = "g5" -> {"d7d5"}
      [] gid = "g6" /\ ply = 0 -> {"g1f3", "e2e4", NoStr}
      [] gid = "g6" /\ ply = 1 -> {"d7d5", "e7e5", NoStr}
      [] gid = "g7" /\ ply = 4 -> {"d2d4"}
      [] gid = "g8" /\ ply = 0 -> {"d2d4"}
      [] OTHER -> {NoStr}

\* the scores of the position after the engine's best move
AfterBestScores(gid, ply) ==
    CASE gid = "g1" -> {-35}
      [] gid = "g2" -> {-20}
      [] gid = "g4" /\ ply = 0 -> {40}
      [] gid = "g4" /\ ply = 4 -> {-100}
      [] gid = "g6" /\ ply = 0 -> {40, -99, -100}
      [] gid = "g6" /\ ply = 1 -> {-40, 99, 100}
      [] OTHER -> {0}

\* the scores of the position after the move played in the game
AfterPlayedScores(gid, ply) ==
    CASE gid = "g1" -> {-90}
      [] gid = "g2" -> {-20}
      [] gid = "g4" /\ ply = 0 -> {-80}
      [] gid = "g4" /\ ply = 2 -> {-300}
      [] gid = "g4" /\ ply = 4 -> {-100}
      [] gid = "g5" -> {600}
      [] gid = "g6" /\ ply = 0 -> {0, -50, -80, -99, -100, -299, -300, -599, -600}
      [] gid = "g7" /\ ply = 4 -> {-120}
      [] gid = "g8" /\ ply = 0 -> {-150}
      [] gid = "g6" /\ ply = 1 -> {0, 50, 80, 99, 100, 299, 300, 599, 600}
      [] OTHER -> {0}

\* whether engine.analyse may raise on the positions of this game
MayRaise(gid) == gid \in {"g4", "g6"}

\* PovScore.white(): the score from white's point of view
WhiteScore(rel, turn) == IF turn = "white" THEN rel ELSE -rel

\* f"{score_cp / 100:.2f}": the text of a centipawn score ("0.00" is ScoreText(0))
ScoreText(score_cp) == <<"%.2f", score_cp>>

\* the dict analyze_position returns when engine.analyse returned
AnalysisOk(rel, turn, pv0) ==
    [error |-> FALSE, score |-> ScoreText(WhiteScore(rel, turn)),
     score_cp |-> WhiteScore(rel, turn), best_move |-> pv0]

\* the dict analyze_position returns when engine.analyse raised
AnalysisError ==
    [error |-> TRUE, score |-> ScoreText(0), score_cp |-> 0, best_move |-> NoStr]

\* a local that holds no analysis yet
NoAnalysis ==
    [error |-> FALSE, score |-> ScoreText(0), score_cp |-> 0, best_move |-> "unset"]

\* what one analyze_position call on a position may return
AnalyzeResults(gid, scores, turn, pvs) ==
    { AnalysisOk(r, turn, m) : r \in scores, m \in pvs }
        \cup (IF MayRaise(gid) THEN {AnalysisError} ELSE {})

----------------------------------------------------------------------------
(* One sampled ply of generate_puzzles_from_games *)

\* the limit of puzzles taken from one game
MAX_PUZZLES_PER_GAME == 2

\* board.san(move) for the moves of the model
San(m) ==
    CASE m = "e2e4" -> "e4"
      [] m = "d2d4" -> "d4"
      [] m = "c2c4" -> "c4"
      [] m = "b2b3" -> "b3"
      [] m = "g2g3" -> "g3"
      [] m = "g1f3" -> "Nf3"
      [] m = "b1c3" -> "Nc3"
      [] m = "e7e5" -> "e5"
      [] m = "d7d5" -> "d5"
      [] m = "g8f6" -> "Nf6"
      [] m = "a2a3" -> "a3"
      [] m = "c2c3" -> "c3"
      [] OTHER -> m

\* "Flip perspective": the negation applied to the score after a move
FlipPerspective(score_cp) == -score_cp

EvalLoss(position_eval_cp, played_move_eval_cp) ==
    position_eval_cp - played_move_eval_cp

\* the thresholds taken as strict ("eval loss > 100cp")
PuzzleTypeStrict(played_move_uci, best_move_uci, position_eval_cp, best_move_eval_cp, played_move_eval_cp) ==
    IF /\ played_move_uci # best_move_uci
       /\ EvalLoss(position_eval_cp, played_move_eval_cp) > 100
    THEN "mistake"
    ELSE IF (position_eval_cp - best_move_eval_cp) > 100
    THEN "tactical"
    ELSE NoStr

PuzzleType(played_move_uci, best_move_uci, position_eval_cp, best_move_eval_cp, played_move_eval_cp) ==
    IF /\ played_move_uci # best_move_uci
       /\ EvalLoss(position_eval_cp, played_move_eval_cp) >= 100
    THEN "mistake"
    ELSE IF (position_eval_cp - best_move_eval_cp) >= 100
    THEN "tactical"
    ELSE NoStr

\* the loss left as computed for a tactical opportunity
ReportedLossKept(puzzle_type, loss) == loss

\* eval_loss after classification: a tactical opportunity reports no loss
ReportedLoss(puzzle_type, loss) == IF puzzle_type = "tactical" THEN 0 ELSE loss

\* the tier bounds taken as inclusive
DifficultyInclusive(eval_loss) ==
    IF eval_loss <= 100 THEN "easy"
    ELSE IF eval_loss <= 300 THEN "easy"
    ELSE IF eval_loss <= 600 THEN "medium"
    ELSE "hard"

Difficulty(eval_loss) ==
    IF eval_loss < 100 THEN "easy"
    ELSE IF eval_loss < 300 THEN "easy"
    ELSE IF eval_loss < 600 THEN "medium"
    ELSE "hard"

\* `difficulty_filter and difficulty not in difficulty_filter` is false
\* a filter that lets every difficulty through
PassesFilterAll(difficulty, difficulty_filter) == TRUE

\* `not (difficulty_filter and difficulty not in difficulty_filter)`
PassesFilter(difficulty, difficulty_filter) ==
    \/ Len(difficulty_filter) = 0
    \/ \E i \in 1..Len(difficulty_filter) : difficulty_filter[i] = difficulty

\* the PuzzleCandidate built for ply `ply` of `game`
PuzzleCandidate(game, ply, played_move_uci, player_color, position_analysis, best_move_eval_cp, played_move_eval_cp, eval_loss, difficulty, puzzle_type) ==
    [ game_id |-> game.game_id,
      fen |-> SubSeq(game.pgn, 1, ply),
      move_number |-> (ply \div 2) + 1,
      ply |-> ply,
      best_move |-> position_analysis.best_move,
      best_move_san |-> San(position_analysis.best_move),
      played_move |-> IF puzzle_type = "mistake" THEN played_move_uci ELSE NoStr,
      played_move_san |-> IF puzzle_type = "mistake" THEN San(played_move_uci) ELSE NoStr,
      position_eval_cp |-> position_analysis.score_cp,
      best_move_eval_cp |-> best_move_eval_cp,
      played_move_eval_cp |->
          IF puzzle_type = "mistake" THEN Some(played_move_eval_cp) ELSE None,
      eval_loss_cp |-> eval_loss,
      difficulty |-> difficulty,
      puzzle_type |-> puzzle_type,
      player_color |-> player_color ]

\* the local `puzzle` before any puzzle was built for the ply
NoPuzzle ==
    [ game_id |-> NoStr, fen |-> <<>>, move_number |-> 0, ply |-> 0,
      best_move |-> NoStr, best_move_san |-> NoStr, played_move |-> NoStr,
      played_move_san |-> NoStr, position_eval_cp |-> 0, best_move_eval_cp |-> 0,
      played_move_eval_cp |-> None, eval_loss_cp |-> 0, difficulty |-> NoStr,
      puzzle_type |-> NoStr, player_color |-> NoStr ]

----------------------------------------------------------------------------
(* The frame of one call of generate_puzzles_from_games *)

\* the locals of one ply, before the ply is analysed
PlyLocals ==
    [ position_analysis |-> NoAnalysis, best_move_analysis |-> NoAnalysis,
      played_move_analysis |-> NoAnalysis, eval_loss |-> 0, puzzle_type |-> NoStr,
      difficulty |-> NoStr, puzzle |-> NoPuzzle ]

IdleFrame ==
    [ pc |-> "idle", storage |-> NoStr, username |-> NoStr, max_puzzles |-> 0,
      difficulty_filter |-> <<>>, min_ply |-> 0, max_ply |-> 0,
      progress_callback |-> FALSE, user_games |-> <<>>, game_idx |-> 0,
      games_analyzed |-> 0, puzzles |-> <<>>, player_color |-> NoStr,
      sampled_positions |-> <<>>, pos_idx |-> 0, puzzles_this_game |-> 0,
      locals |-> PlyLocals ]

\* the frame on entry, with the arguments of the call
CalledFrame(storage, username, max_puzzles, difficulty_filter, min_ply, max_ply, progress_callback) ==
    [ IdleFrame EXCEPT !.pc = "called", !.storage = storage, !.username = username,
                       !.max_puzzles = max_puzzles,
                       !.difficulty_filter = difficulty_filter,
                       !.min_ply = min_ply, !.max_ply = max_ply,
                       !.progress_callback = progress_callback ]

\* the locals of run_import_task before the task is added
ImportIdleFrame ==
    [ pc |-> "idle", db_id |-> NoStr, chesscom_username |-> None,
      lichess_username |-> None, tasks_to_run |-> <<>>, idx |-> 0,
      platform_progress |-> 0, total_fetched |-> 0, new_games_added |-> 0,
      duplicates_skipped |-> 0 ]

\* the coroutines that can occupy the event loop
Idle == <<>>
ScanOf(c) == <<"scan", c>>
HandlerOf(h) == <<h, 0>>

\* the call ids: 0 is a direct call of generate_puzzles_from_games, 1.. are tasks
CallIds == 0..MaxTasks
TaskIds == 1..MaxTasks

\* the game the for-loop of frame f is at, and the sampled ply it is at
CurGame(f) == f.user_games[f.game_idx + 1]
CurPos(f) == f.sampled_positions[f.pos_idx]

\* g.white_player.lower() == username_lower or g.black_player.lower() == username_lower
IsUserGame(g, username) ==
    \/ Lower(g.white_player) = Lower(username)
    \/ Lower(g.black_player) = Lower(username)

PlayerColor(g, username) ==
    IF Lower(g.white_player) = Lower(username) THEN "white" ELSE "black"

\* the (ply, move) pairs of the user's turns within [min_ply, max_ply)
UserPositions(game, player_color, min_ply, max_ply) ==
    LET all_moves == Mainline(game.pgn)
        all == [i \in 1..Len(all_moves) |-> [ply |-> i - 1, move |-> all_moves[i]]]
        Keep(pm) == /\ min_ply <= pm.ply
                    /\ pm.ply < max_ply
                    /\ Turn(pm.ply) = player_color
    IN SelectSeq(all, Keep)

\* every ply of the user analysed, whatever their number
SampledPositionsAll(user_positions) == {user_positions}

\* plies drawn with replacement: each one comes twice
SampledPositionsTwice(user_positions) == {user_positions \o user_positions}

\* at most 5 of them, in random order when sampled
SampledPositions(user_positions) ==
    IF Len(user_positions) > 5
    THEN Samples(user_positions, 5)
    ELSE {user_positions}

\* the share of the games not yet scanned, reported as the progress
ProgressPctRemaining(game_idx, total_user_games) ==
    ((total_user_games - game_idx) * 100) \div total_user_games

\* int((game_idx / total_user_games) * 100)
ProgressPct(game_idx, total_user_games) == (game_idx * 100) \div total_user_games

\* progress_callback of run_puzzle_generation_task: the update of the task record
ProgressUpdate(rec, progress_pct, current_game, total_games, puzzles_found) ==
    [ rec EXCEPT !.progress = Min(progress_pct, 99),
                 !.current_game = current_game,
                 !.total_games = total_games,
                 !.puzzles_found = puzzles_found ]

----------------------------------------------------------------------------
(* Calls into the one engine *)

\* the call handed to another thread, the event loop left free meanwhile
LoopReleasedDuringCall(caller) == Idle

\* Who occupies the event-loop thread while `caller` is inside
\* stockfish.analyze_position: the call is a plain synchronous call made from a
\* coroutine, so the caller keeps the thread until engine.analyse returns.
LoopDuringCall(caller) == caller

BeginCall(caller) ==
    /\ inflight' = inflight \cup {caller}
    /\ loop' = LoopDuringCall(caller)

InCall(caller) ==
    /\ caller \in inflight
    /\ loop = LoopDuringCall(caller)

EndCall(caller) ==
    /\ inflight' = inflight \ {caller}
    /\ loop' = caller

----------------------------------------------------------------------------
(* generate_puzzles_from_games, step by step *)

\* an iteration that ends without moving on to the next game
NextGameFrameAgain(f) ==
    [f EXCEPT !.pc = "game_loop", !.sampled_positions = <<>>,
              !.pos_idx = 0, !.puzzles_this_game = 0, !.locals = PlyLocals]

\* `continue` of the for-loop over the games, and the end of one iteration
NextGameFrame(f) ==
    [f EXCEPT !.pc = "game_loop", !.game_idx = @ + 1, !.sampled_positions = <<>>,
              !.pos_idx = 0, !.puzzles_this_game = 0, !.locals = PlyLocals]

\* after the loop over the sampled plies: stop scanning when enough puzzles
AfterGameFrame(f) ==
    IF Len(f.puzzles) >= f.max_puzzles
    THEN [f EXCEPT !.pc = "finish", !.locals = PlyLocals]
    ELSE NextGameFrame(f)

\* `continue` of the loop over the sampled plies
NextPlyFrame(f) ==
    [f EXCEPT !.pc = "ply_loop", !.pos_idx = @ + 1, !.locals = PlyLocals]

\* list(self.games.values()): a new list of the stored games
GetAllGames(storage) == databases[storage]

\* a shuffle made on the store's own list of games
StoreAfterShuffleInPlace(stores, storage, all_games) ==
    [stores EXCEPT ![storage] = all_games]

\* the stores after random.shuffle(all_games): the list shuffled is the one
\* get_all_games built, so the store keeps its games in their order
StoreAfterShuffle(stores, storage, all_games) == stores

\* get_all_games, shuffle, the filter on the username
ScanBegin(c) ==
    LET f == scan[c] IN
    /\ loop = ScanOf(c)
    /\ f.pc = "called"
    /\ \E all_games \in Shuffles(GetAllGames(f.storage)) :
         LET Mine(g) == IsUserGame(g, f.username) IN
         /\ databases' = StoreAfterShuffle(databases, f.storage, all_games)
         /\ scan' = [scan EXCEPT ![c] =
                      [f EXCEPT !.pc = "game_loop", !.user_games = SelectSeq(all_games, Mine),
                                !.game_idx = 0, !.games_analyzed = 0, !.puzzles = <<>>]]
    /\ UNCHANGED <<import_tasks, import_run, metadata, puzzle_tasks, issued, pending, loop, engine,
                   inflight, handler, response>>

\* the head of one iteration of the loop over the games: the progress report,
\* the replay of the game and the sample of the user's plies
GameStart(c) ==
    LET f == scan[c]
        total_user_games == Len(f.user_games)
    IN
    /\ loop = ScanOf(c)
    /\ f.pc = "game_loop"
    /\ IF f.game_idx >= total_user_games
       THEN /\ scan' = [scan EXCEPT ![c] = [f EXCEPT !.pc = "finish"]]
            /\ UNCHANGED puzzle_tasks
       ELSE LET game == CurGame(f)
                player_color == PlayerColor(game, f.username)
                user_positions ==
                    UserPositions(game, player_color, f.min_ply, f.max_ply)
            IN
            /\ puzzle_tasks' =
                 IF f.progress_callback /\ total_user_games > 0
                 THEN [puzzle_tasks EXCEPT ![c] =
                         ProgressUpdate(@, ProgressPct(f.game_idx, total_user_games),
                                        f.game_idx, total_user_games, Len(f.puzzles))]
                 ELSE puzzle_tasks
            /\ \E sampled_positions \in SampledPositions(user_positions) :
                 scan' = [scan EXCEPT ![c] =
                            [f EXCEPT !.pc = "ply_loop",
                                      !.games_analyzed = @ + 1,
                                      !.player_color = player_color,
                                      !.sampled_positions = sampled_positions,
                                      !.pos_idx = 1,
                                      !.puzzles_this_game = 0,
                                      !.locals = PlyLocals]]
    /\ UNCHANGED <<import_tasks, import_run, metadata, databases, issued, pending, loop, engine, inflight,
                   handler, response>>

\* the head of the loop over the sampled plies, up to the entry into the first
\* analyze_position (which starts the engine when it is not started)
PlyHead(c) ==
    LET f == scan[c] IN
    /\ loop = ScanOf(c)
    /\ f.pc = "ply_loop"
    /\ IF \/ f.pos_idx > Len(f.sampled_positions)
          \/ f.puzzles_this_game >= MAX_PUZZLES_PER_GAME
       THEN /\ scan' = [scan EXCEPT ![c] = AfterGameFrame(f)]
            /\ UNCHANGED <<engine, inflight, loop>>
       ELSE \/ /\ engine' = "up"
               /\ BeginCall(ScanOf(c))
               /\ scan' = [scan EXCEPT ![c] = [f EXCEPT !.pc = "call_before"]]
            \/ /\ engine = NoStr
               /\ scan' = [scan EXCEPT ![c] = NextGameFrame(f)]
               /\ UNCHANGED <<engine, inflight, loop>>
    /\ UNCHANGED <<import_tasks, import_run, metadata, databases, puzzle_tasks, issued, pending, handler, response>>

\* engine.analyse returns or raises, and analyze_position returns its dict
AnalyzeReturn(c) ==
    LET f == scan[c]
        gid == CurGame(f).game_id
        ply == CurPos(f).ply
    IN
    /\ f.pc \in {"call_before", "call_best", "call_played"}
    /\ InCall(ScanOf(c))
    /\ EndCall(ScanOf(c))
    /\ \/ /\ f.pc = "call_before"
          /\ \E res \in AnalyzeResults(gid, BeforeScores(gid, ply), Turn(ply),
                                       BestMoves(gid, ply)) :
               scan' = [scan EXCEPT ![c] =
                          [f EXCEPT !.pc = "got_before", !.locals.position_analysis = res]]
       \/ /\ f.pc = "call_best"
          /\ \E res \in AnalyzeResults(gid, AfterBestScores(gid, ply), Turn(ply + 1),
                                       {"reply"}) :
               scan' = [scan EXCEPT ![c] =
                          [f EXCEPT !.pc = "got_best", !.locals.best_move_analysis = res]]
       \/ /\ f.pc = "call_played"
          /\ \E res \in AnalyzeResults(gid, AfterPlayedScores(gid, ply), Turn(ply + 1),
                                       {"reply"}) :
               scan' = [scan EXCEPT ![c] =
                          [f EXCEPT !.pc = "got_played", !.locals.played_move_analysis = res]]
    /\ UNCHANGED <<import_tasks, import_run, metadata, databases, puzzle_tasks, issued, pending, engine, handler,
                   response>>

\* after the analysis of the position before the move: skip the ply when there
\* is no best move, else analyse the position after the best move
AnalyzeBest(c) ==
    LET f == scan[c]
        position_analysis == f.locals.position_analysis
    IN
    /\ loop = ScanOf(c)
    /\ f.pc = "got_before"
    /\ IF \/ position_analysis.best_move = "none"
          \/ position_analysis.best_move = NoStr
       THEN /\ scan' = [scan EXCEPT ![c] = NextPlyFrame(f)]
            /\ UNCHANGED <<inflight, loop>>
       ELSE /\ BeginCall(ScanOf(c))
            /\ scan' = [scan EXCEPT ![c] = [f EXCEPT !.pc = "call_best"]]
    /\ UNCHANGED <<import_tasks, import_run, metadata, databases, puzzle_tasks, issued, pending, engine, handler,
                   response>>

\* analyse the position after the played move
AnalyzePlayed(c) ==
    LET f == scan[c] IN
    /\ loop = ScanOf(c)
    /\ f.pc = "got_best"
    /\ BeginCall(ScanOf(c))
    /\ scan' = [scan EXCEPT ![c] = [f EXCEPT !.pc = "call_played"]]
    /\ UNCHANGED <<import_tasks, import_run, metadata, databases, puzzle_tasks, issued, pending, engine, handler,
                   response>>

\* the three evaluations as the scan reads them from the analyses
PositionEvalCp(f) == f.locals.position_analysis.score_cp
BestMoveEvalCp(f) == FlipPerspective(f.locals.best_move_analysis.score_cp)
PlayedMoveEvalCp(f) == FlipPerspective(f.locals.played_move_analysis.score_cp)

\* classification, difficulty, filter and the append of the puzzle
Classify(c) ==
    LET f == scan[c]
        game == CurGame(f)
        ply == CurPos(f).ply
        played_move_uci == CurPos(f).move
        best_move_uci == f.locals.position_analysis.best_move
        loss == EvalLoss(PositionEvalCp(f), PlayedMoveEvalCp(f))
        puzzle_type == PuzzleType(played_move_uci, best_move_uci, PositionEvalCp(f),
                                  BestMoveEvalCp(f), PlayedMoveEvalCp(f))
        eval_loss == ReportedLoss(puzzle_type, loss)
        difficulty == IF puzzle_type # NoStr THEN Difficulty(eval_loss) ELSE NoStr
        puzzle == PuzzleCandidate(game, ply, played_move_uci, f.player_color,
                                  f.locals.position_analysis, BestMoveEvalCp(f),
                                  PlayedMoveEvalCp(f), eval_loss, difficulty, puzzle_type)
        emit == puzzle_type # NoStr /\ PassesFilter(difficulty, f.difficulty_filter)
    IN
    /\ loop = ScanOf(c)
    /\ f.pc = "got_played"
    /\ scan' = [scan EXCEPT ![c] =
                  [f EXCEPT !.pc = "ply_end",
                            !.locals.eval_loss = eval_loss,
                            !.locals.puzzle_type = puzzle_type,
                            !.locals.difficulty = difficulty,
                            !.locals.puzzle = IF emit THEN puzzle ELSE NoPuzzle,
                            !.puzzles = IF emit THEN Append(@, puzzle) ELSE @,
                            !.puzzles_this_game = IF emit THEN @ + 1 ELSE @]]
    /\ UNCHANGED <<import_tasks, import_run, metadata, databases, puzzle_tasks, issued, pending, loop, engine,
                   inflight, handler, response>>

\* the end of one ply: leave the game when a puzzle was added and there are enough
PlyNext(c) ==
    LET f == scan[c] IN
    /\ loop = ScanOf(c)
    /\ f.pc = "ply_end"
    /\ scan' = [scan EXCEPT ![c] =
                  IF f.locals.puzzle # NoPuzzle /\ Len(f.puzzles) >= f.max_puzzles
                  THEN AfterGameFrame(f)
                  ELSE NextPlyFrame(f)]
    /\ UNCHANGED <<import_tasks, import_run, metadata, databases, puzzle_tasks, issued, pending, loop, engine,
                   inflight, handler, response>>

\* the final shuffle and the return
ScanFinish(c) ==
    LET f == scan[c] IN
    /\ loop = ScanOf(c)
    /\ f.pc = "finish"
    /\ \E puzzles \in Shuffles(f.puzzles) :
         scan' = [scan EXCEPT ![c] = [f EXCEPT !.pc = "returned", !.puzzles = puzzles]]
    /\ UNCHANGED <<import_tasks, import_run, metadata, databases, puzzle_tasks, issued, pending, loop, engine,
                   inflight, handler, response>>

ScanStep(c) ==
    \/ ScanBegin(c)
    \/ GameStart(c)
    \/ PlyHead(c)
    \/ AnalyzeReturn(c)
    \/ AnalyzeBest(c)
    \/ AnalyzePlayed(c)
    \/ Classify(c)
    \/ PlyNext(c)
    \/ ScanFinish(c)

----------------------------------------------------------------------------
(* generate_puzzles_from_games called on its own *)

\* the locals of the request handler in progress (none: op is "None")
NoHandler ==
    [ op |-> NoStr, pc |-> "idle", db_id |-> NoStr, fen |-> <<>>, color |-> NoStr,
      usernames |-> <<>>, result |-> <<>>, idx |-> 0, move_eval |-> NoAnalysis,
      time_control_str |-> <<>>, classified |-> NoStr ]
NoResponse == [op |-> NoStr, code |-> 0, task_id |-> 0, body |-> None]

\* the arguments a direct call is made with
ScanStores == {"db_cap", "db_rich", "db_long", "db_bad"}
ScanUsernames == {"ALICE", "bob"}
ScanMaxPuzzles == 0..3
ScanFilters == {<<>>, <<"medium", "hard">>}
ScanMinPlies == {0, 1}
ScanMaxPlies == {4, 20}

InitScan ==
    \E db \in ScanStores, username \in ScanUsernames, max_puzzles \in ScanMaxPuzzles,
       difficulty_filter \in ScanFilters, min_ply \in ScanMinPlies,
       max_ply \in ScanMaxPlies :
        /\ metadata = {db}
        /\ databases = [d \in {db} |-> StoreGames(d)]
        /\ puzzle_tasks = <<>>
        /\ issued = {}
        /\ pending = {}
        /\ scan = [c \in CallIds |->
                     IF c = 0
                     THEN CalledFrame(db, username, max_puzzles, difficulty_filter,
                                      min_ply, max_ply, FALSE)
                     ELSE IdleFrame]
        /\ loop = ScanOf(0)
        /\ engine \in {NoStr, "up"}
        /\ inflight = {}
        /\ handler = NoHandler
        /\ response = NoResponse
        /\ import_tasks = <<>>
        /\ import_run = [t \in TaskIds |-> ImportIdleFrame]

NextScan == \E c \in CallIds : ScanStep(c)

SpecScan == InitScan /\ [][NextScan]_vars

----------------------------------------------------------------------------
(* The puzzle task orchestrator *)

\* the record generate_puzzles_endpoint registers
NewTask(task_id) ==
    [ task_id |-> task_id, status |-> "running", progress |-> 0, current_game |-> 0,
      total_games |-> 0, puzzles_found |-> 0, error |-> NoStr, puzzles |-> None ]

\* an id generator that gives every call the same id
NewTaskIdReused(registry) == 1

\* str(uuid.uuid4()): an id no earlier call was given
NewTaskId(registry) == Cardinality(DOMAIN registry) + 1

\* `x or default` on an Optional[int]
OrDefault(opt, default) == IF opt = None \/ opt[1] = 0 THEN default ELSE opt[1]

\* "Mark complete"
CompletedUpdate(rec, puzzles) ==
    [rec EXCEPT !.status = "completed", !.progress = 100, !.puzzles = Some(puzzles)]

\* the except branch of run_puzzle_generation_task
FailedUpdate(rec, error) == [rec EXCEPT !.status = "failed", !.error = error]

\* the requests of the model
ServerDbIds == {"db_001", "db_404"}
ServerUsernames == {"ALICE", "zed"}
ServerMaxPuzzles == {None, Some(1)}

\* POST /api/puzzles/generate
Start(db_id, username, max_puzzles) ==
    /\ loop = Idle
    /\ IF db_id \notin metadata
       THEN /\ response' = [op |-> "start", code |-> 400, task_id |-> 0, body |-> None]
            /\ UNCHANGED <<puzzle_tasks, issued, pending>>
       ELSE LET task_id == NewTaskId(puzzle_tasks) IN
            /\ task_id <= MaxTasks
            /\ puzzle_tasks' = [t \in DOMAIN puzzle_tasks \cup {task_id} |->
                                  IF t = task_id THEN NewTask(task_id) ELSE puzzle_tasks[t]]
            /\ pending' = pending \cup
                 {[ task_id |-> task_id, db_id |-> db_id, username |-> username,
                    max_puzzles |-> OrDefault(max_puzzles, 50),
                    difficulty_filter |-> <<>>,
                    min_ply |-> OrDefault(None, 0), max_ply |-> OrDefault(None, 20) ]}
            /\ issued' = issued \cup {task_id}
            /\ response' = [op |-> "start", code |-> 200, task_id |-> task_id,
                            body |-> None]
    /\ UNCHANGED <<import_tasks, import_run, metadata, databases, scan, loop, engine, inflight, handler>>

\* a poll that finds finished tasks only (a change of the lookup)
PollResponseFinishedOnly(task_id, registry) ==
    IF task_id \notin DOMAIN registry \/ registry[task_id].status = "running"
    THEN [op |-> "poll", code |-> 404, task_id |-> task_id, body |-> None]
    ELSE [op |-> "poll", code |-> 200, task_id |-> task_id,
          body |-> Some(registry[task_id])]

\* get_puzzle_generation_status: 404 for an unknown id, else the record's fields
PollResponse(task_id, registry) ==
    IF task_id \notin DOMAIN registry
    THEN [op |-> "poll", code |-> 404, task_id |-> task_id, body |-> None]
    ELSE [op |-> "poll", code |-> 200, task_id |-> task_id,
          body |-> Some(registry[task_id])]

\* GET /api/puzzles/status/{task_id}
Poll(task_id) ==
    /\ loop = Idle
    /\ response' = PollResponse(task_id, puzzle_tasks)
    /\ UNCHANGED <<import_tasks, import_run, metadata, databases, puzzle_tasks, issued, pending, scan, loop,
                   engine, inflight, handler>>

\* DELETE /api/databases/{db_id}
DeleteDatabase(db_id) ==
    /\ loop = Idle
    /\ IF db_id \notin metadata
       THEN /\ response' = [op |-> "delete", code |-> 404, task_id |-> 0, body |-> None]
            /\ UNCHANGED <<metadata, databases>>
       ELSE /\ metadata' = metadata \ {db_id}
            /\ databases' = [d \in DOMAIN databases \ {db_id} |-> databases[d]]
            /\ response' = [op |-> "delete", code |-> 200, task_id |-> 0, body |-> None]
    /\ UNCHANGED <<import_tasks, import_run, puzzle_tasks, issued, pending, scan, loop, engine, inflight, handler>>

\* the background task starts: get_database, then the call of
\* generate_puzzles_from_games with the progress callback
RunTask(t) ==
    /\ loop = Idle
    /\ \E p \in pending :
         /\ p.task_id = t
         /\ pending' = pending \ {p}
         /\ IF p.db_id \in metadata
            THEN /\ scan' = [scan EXCEPT ![t] =
                               CalledFrame(p.db_id, p.username, p.max_puzzles,
                                           p.difficulty_filter, p.min_ply, p.max_ply, TRUE)]
                 /\ loop' = ScanOf(t)
                 /\ UNCHANGED puzzle_tasks
            ELSE /\ puzzle_tasks' = [puzzle_tasks EXCEPT ![t] =
                                       FailedUpdate(@, "Database not found")]
                 /\ UNCHANGED <<scan, loop>>
    /\ UNCHANGED <<import_tasks, import_run, metadata, databases, issued, engine, inflight, handler, response>>

\* generate_puzzles_from_games returned: mark the task complete
TaskComplete(t) ==
    LET f == scan[t] IN
    /\ loop = ScanOf(t)
    /\ f.pc = "returned"
    /\ f.progress_callback
    /\ puzzle_tasks' = [puzzle_tasks EXCEPT ![t] = CompletedUpdate(@, f.puzzles)]
    /\ scan' = [scan EXCEPT ![t] = IdleFrame]
    /\ loop' = Idle
    /\ UNCHANGED <<import_tasks, import_run, metadata, databases, issued, pending, engine, inflight, handler,
                   response>>

----------------------------------------------------------------------------
(* The other callers of the engine *)

\* what the engine may report for the position of a request
RequestResults == {AnalysisOk(25, "white", "e2e4"), AnalysisError}

\* POST /api/analyze/position, up to the entry into engine.analyse
AnalyzePositionCall ==
    /\ loop = Idle
    /\ handler = NoHandler
    /\ \/ /\ engine' = "up"
          /\ BeginCall(HandlerOf("analyze"))
          /\ handler' = [NoHandler EXCEPT !.op = "analyze", !.pc = "call"]
          /\ UNCHANGED response
       \/ /\ engine = NoStr
          /\ response' = [op |-> "analyze", code |-> 500, task_id |-> 0, body |-> None]
          /\ UNCHANGED <<engine, inflight, loop, handler>>
    /\ UNCHANGED <<import_tasks, import_run, metadata, databases, puzzle_tasks, issued, pending, scan>>

\* engine.analyse returns or raises; the handler returns the analysis
AnalyzePositionReturn ==
    /\ handler.op = "analyze"
    /\ handler.pc = "call"
    /\ InCall(HandlerOf("analyze"))
    /\ inflight' = inflight \ {HandlerOf("analyze")}
    /\ loop' = Idle
    /\ handler' = NoHandler
    /\ \E analysis \in RequestResults :
         response' = [op |-> "analyze", code |-> 200, task_id |-> 0,
                      body |-> Some(analysis)]
    /\ UNCHANGED <<import_tasks, import_run, metadata, databases, puzzle_tasks, issued, pending, scan, engine>>

----------------------------------------------------------------------------
(* The opening explorer *)

\* fen.split()[0]: the piece placement of the position reached by `moves`
\* (the games of the model move no piece twice and capture nothing, so the
\* placement is given by the set of the moves made, whatever their order)
Placement(moves) == { moves[i] : i \in 1..Len(moves) }

\* the ply at which the replay of `pgn` first shows the target's placement
\* (Len(pgn) when it never does: the position after the last move is not compared)
RECURSIVE FirstMatch(_, _, _)
FirstMatch(pgn, target, k) ==
    IF k >= Len(pgn) THEN Len(pgn)
    ELSE IF Placement(SubSeq(pgn, 1, k)) = Placement(target) THEN k
    ELSE FirstMatch(pgn, target, k + 1)

\* a filter that keeps the games of the named players, whatever their colour
ExplorerGamesEitherSide(games, color, usernames) ==
    LET Named(n) == \E i \in 1..Len(usernames) : Lower(usernames[i]) = Lower(n)
        Keep(g) == Named(g.white_player) \/ Named(g.black_player)
    IN IF Len(usernames) > 0 THEN SelectSeq(games, Keep) ELSE games

\* the games kept by the filter on the usernames
ExplorerGames(games, color, usernames) ==
    LET Named(n) == \E i \in 1..Len(usernames) : Lower(usernames[i]) = Lower(n)
        Keep(g) == IF Lower(color) = "white"
                   THEN Named(g.white_player)
                   ELSE Named(g.black_player)
    IN IF Len(usernames) > 0 THEN SelectSeq(games, Keep) ELSE games

\* every result tallied as white sees it, whatever the queried colour
AddOccurrenceWhiteView(continuations, move_san, color, result) ==
    LET known == \E i \in 1..Len(continuations) : continuations[i].move = move_san
        base == IF known THEN continuations
                ELSE Append(continuations,
                            [move |-> move_san, count |-> 0, wins |-> 0, draws |-> 0,
                             losses |-> 0, win_pct |-> 0, draw_pct |-> 0,
                             loss_pct |-> 0, stockfish_eval |-> <<>>,
                             stockfish_eval_cp |-> 0])
    IN [i \in 1..Len(base) |->
          IF base[i].move = move_san
          THEN [base[i] EXCEPT !.count = @ + 1,
                               !.wins = IF result = "1-0" THEN @ + 1 ELSE @,
                               !.losses = IF result = "0-1" THEN @ + 1 ELSE @,
                               !.draws = IF result \notin {"1-0", "0-1"} THEN @ + 1 ELSE @]
          ELSE base[i]]

\* one more occurrence of move_san, with the game's result seen from `color`
AddOccurrence(continuations, move_san, color, result) ==
    LET known == \E i \in 1..Len(continuations) : continuations[i].move = move_san
        base == IF known THEN continuations
                ELSE Append(continuations,
                            [move |-> move_san, count |-> 0, wins |-> 0, draws |-> 0,
                             losses |-> 0, win_pct |-> 0, draw_pct |-> 0,
                             loss_pct |-> 0, stockfish_eval |-> <<>>,
                             stockfish_eval_cp |-> 0])
        won == IF Lower(color) = "white" THEN result = "1-0" ELSE result = "0-1"
        lost == IF Lower(color) = "white" THEN result = "0-1" ELSE result = "1-0"
    IN [i \in 1..Len(base) |->
          IF base[i].move = move_san
          THEN [base[i] EXCEPT !.count = @ + 1,
                               !.wins = IF won THEN @ + 1 ELSE @,
                               !.losses = IF lost THEN @ + 1 ELSE @,
                               !.draws = IF ~won /\ ~lost THEN @ + 1 ELSE @]
          ELSE base[i]]

\* the loop over the games: the dict of continuations, in insertion order
RECURSIVE Tally(_, _, _, _, _)
Tally(games, i, target, color, continuations) ==
    IF i > Len(games) THEN continuations
    ELSE LET pgn == Mainline(games[i].pgn)
             k == FirstMatch(pgn, target, 0)
         IN Tally(games, i + 1, target, color,
                  IF k < Len(pgn)
                  THEN AddOccurrence(continuations, San(pgn[k + 1]), color,
                                     games[i].result)
                  ELSE continuations)

\* a sort that puts the later of two continuations of equal count first
RECURSIVE SortByCountTiesLast(_)
SortByCountTiesLast(result) ==
    IF Len(result) <= 1 THEN result
    ELSE LET sorted == SortByCountTiesLast(SubSeq(result, 1, Len(result) - 1))
             x == result[Len(result)]
             Before(y) == y.count > x.count
             After(y) == y.count <= x.count
         IN SelectSeq(sorted, Before) \o <<x>> \o SelectSeq(sorted, After)

\* result.sort(key=count, reverse=True): stable, highest count first
RECURSIVE SortByCount(_)
SortByCount(result) ==
    IF Len(result) <= 1 THEN result
    ELSE LET sorted == SortByCount(SubSeq(result, 1, Len(result) - 1))
             x == result[Len(result)]
             Before(y) == y.count >= x.count
             After(y) == y.count < x.count
         IN SelectSeq(sorted, Before) \o <<x>> \o SelectSeq(sorted, After)

\* the percentage rounded to a whole percent
RoundPctWhole(part, total) ==
    IF total > 0 THEN 10 * ((part * 100 + total \div 2) \div total) ELSE 0

\* round((part / total) * 100, 1) if total > 0 else 0, in tenths of a percent
\* (a value halfway between two tenths goes to the even one)
RoundPct(part, total) ==
    IF total > 0
    THEN LET q == (part * 1000) \div total
             r == (part * 1000) % total
         IN IF 2 * r > total THEN q + 1
            ELSE IF 2 * r < total THEN q
            ELSE IF q % 2 = 0 THEN q ELSE q + 1
    ELSE 0

\* "Convert to list and add percentages", for one continuation
WithPercentages(move_data) ==
    [move_data EXCEPT !.win_pct = RoundPct(move_data.wins, move_data.count),
                      !.draw_pct = RoundPct(move_data.draws, move_data.count),
                      !.loss_pct = RoundPct(move_data.losses, move_data.count)]

\* the explorer requests of the model: the target is the initial position
ExplorerColors == {"white"}
ExplorerUsernames == {<<"alice">>}
ExplorerFens == {<<>>}

\* POST /api/explorer/query up to the call of find_continuations: the check of
\* the database (whose HTTPException the handler's own except turns into a 500)
ExplorerQuery(db_id, color, usernames, fen) ==
    /\ loop = Idle
    /\ handler = NoHandler
    /\ IF db_id \notin metadata
       THEN /\ response' = [op |-> "explorer", code |-> 500, task_id |-> 0, body |-> None]
            /\ UNCHANGED <<loop, handler>>
       ELSE /\ handler' = [NoHandler EXCEPT !.op = "explorer", !.pc = "called",
                                            !.db_id = db_id, !.fen = fen,
                                            !.color = color, !.usernames = usernames]
            /\ loop' = HandlerOf("explorer")
            /\ UNCHANGED response
    /\ UNCHANGED <<import_tasks, import_run, metadata, databases, puzzle_tasks, issued, pending, scan, engine,
                   inflight>>

\* find_continuations up to the end of the loop over the games
ExplorerTally ==
    /\ loop = HandlerOf("explorer")
    /\ handler.pc = "called"
    /\ handler' = [handler EXCEPT
                     !.pc = "eval_loop",
                     !.result = Tally(ExplorerGames(databases[handler.db_id],
                                                    handler.color, handler.usernames),
                                      1, handler.fen, handler.color, <<>>),
                     !.idx = 1]
    /\ UNCHANGED <<import_tasks, import_run, metadata, databases, puzzle_tasks, issued, pending, scan, loop,
                   engine, inflight, response>>

\* one continuation: its percentages, then the entry into analyze_position,
\* whose failure to start the engine marks the evaluation "N/A"
ExplorerEvalCall ==
    /\ loop = HandlerOf("explorer")
    /\ handler.pc = "eval_loop"
    /\ handler.idx <= Len(handler.result)
    /\ LET move_data == WithPercentages(handler.result[handler.idx]) IN
       \/ /\ engine' = "up"
          /\ BeginCall(HandlerOf("explorer"))
          /\ handler' = [handler EXCEPT !.pc = "call_move",
                                        !.result[handler.idx] = move_data]
       \/ /\ engine = NoStr
          /\ handler' = [handler EXCEPT
                           !.result[handler.idx] =
                               [move_data EXCEPT !.stockfish_eval = <<"N/A">>,
                                                 !.stockfish_eval_cp = 0],
                           !.idx = @ + 1]
          /\ UNCHANGED <<engine, inflight, loop>>
    /\ UNCHANGED <<import_tasks, import_run, metadata, databases, puzzle_tasks, issued, pending, scan, response>>

\* analyze_position returns for the continuation
ExplorerEvalReturn ==
    /\ handler.op = "explorer"
    /\ handler.pc = "call_move"
    /\ InCall(HandlerOf("explorer"))
    /\ EndCall(HandlerOf("explorer"))
    /\ \E move_eval \in RequestResults :
         handler' = [handler EXCEPT !.pc = "eval_loop",
                                    !.move_eval = move_eval,
                                    !.result[handler.idx].stockfish_eval = move_eval.score,
                                    !.result[handler.idx].stockfish_eval_cp = move_eval.score_cp,
                                    !.idx = @ + 1]
    /\ UNCHANGED <<import_tasks, import_run, metadata, databases, puzzle_tasks, issued, pending, scan, engine,
                   response>>

\* the sort that ends find_continuations, then the evaluation of the target
\* position: the handler starts the engine when needed and fails when it cannot
ExplorerPositionCall ==
    /\ loop = HandlerOf("explorer")
    /\ handler.pc = "eval_loop"
    /\ handler.idx > Len(handler.result)
    /\ \/ /\ engine' = "up"
          /\ BeginCall(HandlerOf("explorer"))
          /\ handler' = [handler EXCEPT !.pc = "call_position",
                                        !.result = SortByCount(@)]
          /\ UNCHANGED response
       \/ /\ engine = NoStr
          /\ response' = [op |-> "explorer", code |-> 500, task_id |-> 0, body |-> None]
          /\ handler' = NoHandler
          /\ loop' = Idle
          /\ UNCHANGED <<engine, inflight>>
    /\ UNCHANGED <<import_tasks, import_run, metadata, databases, puzzle_tasks, issued, pending, scan>>

\* analyze_position returns for the target position; the response is sent
ExplorerPositionReturn ==
    /\ handler.op = "explorer"
    /\ handler.pc = "call_position"
    /\ InCall(HandlerOf("explorer"))
    /\ inflight' = inflight \ {HandlerOf("explorer")}
    /\ loop' = Idle
    /\ handler' = NoHandler
    /\ \E position_eval \in RequestResults :
         response' = [op |-> "explorer", code |-> 200, task_id |-> 0,
                      body |-> Some([position_eval |-> position_eval,
                                     continuations |-> handler.result])]
    /\ UNCHANGED <<import_tasks, import_run, metadata, databases, puzzle_tasks, issued, pending, scan, engine>>

----------------------------------------------------------------------------
(* find_continuations and the rest of explorer_query on a store of its own *)

\* the ids of the games of such a store, in the order of insertion
ExplorerGameIds ==
    << "x01", "x02", "x03", "x04", "x05", "x06", "x07", "x08", "x09", "x10",
       "x11", "x12", "x13", "x14", "x15", "x16", "x17", "x18", "x19", "x20" >>

\* a store of wins white wins, draws draws and losses black wins that all open
\* e2e4 e7e5, followed by nothing, by a game that opens d2d4, or by a game whose
\* record holds an illegal move at ply 1; or preceded by a game that opens
\* d2d4; or preceded by a game that opens c2c4 and followed by one that opens
\* d2d4
ExplorerStore(wins, draws, losses, extra) ==
    LET n == wins + draws + losses
        same == [i \in 1..n |->
                   Game(ExplorerGameIds[i], "Alice", "Bob",
                        IF i <= wins THEN "1-0"
                        ELSE IF i <= wins + draws THEN "1/2-1/2" ELSE "0-1",
                        <<"e2e4", "e7e5">>)]
    IN CASE extra = "none" -> same
         [] extra = "other" ->
              Append(same, Game(ExplorerGameIds[n + 1], "Alice", "Bob", "1-0",
                                <<"d2d4", "d7d5", "c2c4">>))
         [] extra = "bad" ->
              Append(same, Game(ExplorerGameIds[n + 1], "Alice", "Bob", "0-1",
                                <<"e2e4", "e1e8", "d2d4">>))
         [] extra = "first" ->
              <<Game(ExplorerGameIds[n + 1], "Alice", "Bob", "1-0",
                     <<"d2d4", "d7d5", "c2c4">>)>> \o same
         [] extra = "around" ->
              <<Game(ExplorerGameIds[n + 1], "Alice", "Bob", "1/2-1/2",
                     <<"c2c4", "e7e5">>)>>
                \o Append(same, Game(ExplorerGameIds[n + 2], "Alice", "Bob", "1-0",
                                     <<"d2d4", "d7d5", "c2c4">>))

ExplorerExtras == {"none", "other", "bad", "first", "around"}

\* the requests made on it
FindColors == {"white", "black"}
FindUsernames == {<<>>, <<"Alice">>, <<"Bob">>, <<"zed", "ALICE">>}
FindFens == {<<>>, <<"e2e4">>, <<"h2h4">>}

InitExplorer ==
    \E wins \in 0..MaxSameResult, draws \in 0..MaxSameResult,
       losses \in 0..MaxSameResult, extra \in ExplorerExtras,
       color \in FindColors, usernames \in FindUsernames, fen \in FindFens :
        /\ metadata = {"db_x"}
        /\ databases = [d \in {"db_x"} |-> ExplorerStore(wins, draws, losses, extra)]
        /\ puzzle_tasks = <<>>
        /\ issued = {}
        /\ pending = {}
        /\ scan = [c \in CallIds |-> IdleFrame]
        /\ loop = HandlerOf("explorer")
        /\ engine \in {NoStr, "up"}
        /\ inflight = {}
        /\ handler = [NoHandler EXCEPT !.op = "explorer", !.pc = "called",
                                       !.db_id = "db_x", !.fen = fen,
                                       !.color = color, !.usernames = usernames]
        /\ response = NoResponse
        /\ import_tasks = <<>>
        /\ import_run = [t \in TaskIds |-> ImportIdleFrame]

NextExplorer ==
    \/ ExplorerTally
    \/ ExplorerEvalCall
    \/ ExplorerEvalReturn
    \/ ExplorerPositionCall
    \/ ExplorerPositionReturn

SpecExplorer == InitExplorer /\ [][NextExplorer]_vars

----------------------------------------------------------------------------
(* classify_time_control.  A string is the sequence of its characters. *)

UpperCase ==
    << "A", "B", "C", "D", "E", "F", "G", "H", "I", "J", "K", "L", "M",
       "N", "O", "P", "Q", "R", "S", "T", "U", "V", "W", "X", "Y", "Z" >>
LowerCase ==
    << "a", "b", "c", "d", "e", "f", "g", "h", "i", "j", "k", "l", "m",
       "n", "o", "p", "q", "r", "s", "t", "u", "v", "w", "x", "y", "z" >>
Digits == << "0", "1", "2", "3", "4", "5", "6", "7", "8", "9" >>

\* str.lower()
LowerStr(str) ==
    [i \in 1..Len(str) |->
        IF \E k \in 1..26 : UpperCase[k] = str[i]
        THEN LowerCase[CHOOSE k \in 1..26 : UpperCase[k] = str[i]]
        ELSE str[i]]

\* `sub in str`
Contains(str, sub) ==
    \E i \in 1..(Len(str) - Len(sub) + 1) : SubSeq(str, i, i + Len(sub) - 1) = sub

\* str.split("+")[0]: the part before the first "+"
BeforePlus(str) ==
    IF \E i \in 1..Len(str) : str[i] = "+"
    THEN SubSeq(str, 1, (CHOOSE i \in 1..Len(str) :
                            str[i] = "+" /\ \A j \in 1..(i - 1) : str[j] # "+") - 1)
    ELSE str

\* str.strip() of blanks
RECURSIVE Strip(_)
Strip(str) ==
    IF Len(str) > 0 /\ str[1] = " " THEN Strip(Tail(str))
    ELSE IF Len(str) > 0 /\ str[Len(str)] = " " THEN Strip(SubSeq(str, 1, Len(str) - 1))
    ELSE str

IsDigit(ch) == \E k \in 1..10 : Digits[k] = ch
DigitValue(ch) == (CHOOSE k \in 1..10 : Digits[k] = ch) - 1

\* the value of a sequence of decimal digits
RECURSIVE Decimal(_)
Decimal(ds) ==
    IF Len(ds) = 0 THEN 0
    ELSE 10 * Decimal(SubSeq(ds, 1, Len(ds) - 1)) + DigitValue(ds[Len(ds)])

\* int(str): blanks around, an optional sign, then digits (the strings of the
\* model hold no underscore); None stands for ValueError
ParseInt(str) ==
    LET t == Strip(str)
        signed == Len(t) > 0 /\ t[1] \in {"+", "-"}
        ds == IF signed THEN Tail(t) ELSE t
    IN IF Len(ds) > 0 /\ \A i \in 1..Len(ds) : IsDigit(ds[i])
       THEN Some(IF signed /\ t[1] = "-" THEN -Decimal(ds) ELSE Decimal(ds))
       ELSE None

\* buckets that take in their upper limit
BucketInclusive(seconds) ==
    IF seconds <= 180 THEN "bullet"
    ELSE IF seconds <= 600 THEN "blitz"
    ELSE IF seconds <= 1800 THEN "rapid"
    ELSE "classical"

\* "Classify based on total time"
Bucket(seconds) ==
    IF seconds < 180 THEN "bullet"
    ELSE IF seconds < 600 THEN "blitz"
    ELSE IF seconds < 1800 THEN "rapid"
    ELSE "classical"

\* every number taken as seconds, a small one included
ClassifyTimeControlSeconds(time_control_str) ==
    LET tc == LowerStr(time_control_str)
        seconds == ParseInt(BeforePlus(tc))
    IN IF \/ Contains(tc, <<"c", "o", "r", "r", "e", "s", "p", "o", "n", "d", "e", "n", "c", "e">>)
          \/ Contains(tc, <<"d", "a", "i", "l", "y">>)
       THEN "correspondence"
       ELSE IF seconds = None THEN "blitz"
       ELSE Bucket(seconds[1])

ClassifyTimeControl(time_control_str) ==
    LET tc == LowerStr(time_control_str)
        seconds == ParseInt(BeforePlus(tc))
    IN IF \/ Contains(tc, <<"c", "o", "r", "r", "e", "s", "p", "o", "n", "d", "e", "n", "c", "e">>)
          \/ Contains(tc, <<"d", "a", "i", "l", "y">>)
       THEN "correspondence"
       ELSE IF seconds = None THEN "blitz"
       ELSE IF seconds[1] < 60 THEN Bucket(seconds[1] * 60)
       ELSE Bucket(seconds[1])

\* str(n) for n >= 0
RECURSIVE ToChars(_)
ToChars(n) ==
    IF n < 10 THEN <<Digits[n + 1]>>
    ELSE ToChars(n \div 10) \o <<Digits[(n % 10) + 1]>>

\* the time-control strings the function is called with
TimeBases ==
    {0, 1, 2, 3, 5, 9, 10, 15, 29, 30, 59, 60, 120, 179, 180, 300, 599, 600, 900,
     1799, 1800, 3600}

TimeControlStrings ==
    { ToChars(n) : n \in TimeBases }
      \cup { ToChars(n) \o <<"+">> \o ToChars(i) : n \in TimeBases, i \in {0, 5} }
      \cup { <<"c", "o", "r", "r", "e", "s", "p", "o", "n", "d", "e", "n", "c", "e">>,
             <<"C", "o", "r", "r", "e", "s", "p", "o", "n", "d", "e", "n", "c", "e">>,
             <<"D", "a", "i", "l", "y">>,
             <<"g", "a", "r", "b", "a", "g", "e">>,
             <<"1", "/", "8", "6", "4", "0", "0">>,
             <<"-">>, <<"-", "5">>, <<"+", "5">>, <<" ", "6", "0", "0">>, <<>> }

InitClassify ==
    \E time_control_str \in TimeControlStrings :
        /\ metadata = {}
        /\ databases = <<>>
        /\ puzzle_tasks = <<>>
        /\ issued = {}
        /\ pending = {}
        /\ scan = [c \in CallIds |-> IdleFrame]
        /\ loop = HandlerOf("classify")
        /\ engine = NoStr
        /\ inflight = {}
        /\ handler = [NoHandler EXCEPT !.op = "classify", !.pc = "called",
                                       !.time_control_str = time_control_str]
        /\ response = NoResponse
        /\ import_tasks = <<>>
        /\ import_run = [t \in TaskIds |-> ImportIdleFrame]

\* the call returns
ClassifyReturn ==
    /\ handler.op = "classify"
    /\ handler.pc = "called"
    /\ handler' = [handler EXCEPT !.pc = "returned",
                                  !.classified = ClassifyTimeControl(handler.time_control_str)]
    /\ UNCHANGED <<import_tasks, import_run, metadata, databases, puzzle_tasks, issued, pending, scan, loop,
                   engine, inflight, response>>

NextClassify == ClassifyReturn

SpecClassify == InitClassify /\ [][NextClassify]_vars

----------------------------------------------------------------------------
(* The import of games: import_games, run_import_task, get_import_status *)

\* a game as the fetchers build it, with the fields game_exists compares
ImportedGame(id, platform, date, w, b, res, ms) ==
    [ game_id |-> id, platform |-> platform, date |-> date, white_player |-> w,
      black_player |-> b, result |-> res, pgn |-> ms ]

\* the store the imports go to: one game, imported from lichess earlier
ImportStore ==
    << ImportedGame("s1", "lichess", "2024.02.02", "Alice", "Bob", "1-0",
                    <<"e2e4", "e7e5">>) >>

\* the lists of games fetch_games may return for a platform: none (an unknown
\* user, a failed request), or the games of the user; c2 is a second record
\* of the game c1, and l1 is the game already in the store
FetchedGames(platform) ==
    IF platform = "chess.com"
    THEN { <<>>,
           << ImportedGame("c1", "chess.com", "2024.01.01", "Alice", "Carl", "0-1",
                           <<"d2d4", "d7d5">>) >>,
           << ImportedGame("c1", "chess.com", "2024.01.01", "Alice", "Carl", "0-1",
                           <<"d2d4", "d7d5">>),
              ImportedGame("c2", "chess.com", "2024.01.01", "Alice", "Carl", "0-1",
                           <<"d2d4", "d7d5">>) >> }
    ELSE { <<>>,
           << ImportedGame("l1", "lichess", "2024.02.02", "Alice", "Bob", "1-0",
                           <<"e2e4", "e7e5">>) >> }

\* the values a fetcher reports to its progress callback, in the order it
\* reports them: chess.com after each of two monthly archives, lichess after
\* 10 and 20 games of at most 500 and at the end of the stream
PlatformSteps(platform) ==
    IF platform = "chess.com" THEN {50, 100} ELSE {2, 4, 100}

\* GameStorage.game_exists
GameExists(games, game) ==
    \E i \in 1..Len(games) :
        /\ games[i].platform = game.platform
        /\ games[i].date = game.date
        /\ games[i].white_player = game.white_player
        /\ games[i].black_player = game.black_player

\* "Add games to storage (with deduplication)": the store and the counters
\* after the games from position i on
RECURSIVE AddGames(_, _, _)
AddGames(acc, games, i) ==
    IF i > Len(games) THEN acc
    ELSE AddGames(
           IF GameExists(acc.storage, games[i])
           THEN [acc EXCEPT !.total_fetched = @ + 1, !.duplicates_skipped = @ + 1]
           ELSE [acc EXCEPT !.total_fetched = @ + 1, !.new_games_added = @ + 1,
                            !.storage = Append(@, games[i])],
           games, i + 1)

\* the record import_games registers
NewImportTask ==
    [ status |-> "running", progress |-> 0, total_fetched |-> 0,
      new_games_added |-> 0, duplicates_skipped |-> 0, error |-> NoStr ]

\* int(platform_progress_offset + (platform_progress / 100) * platform_progress_range)
OverallProgress(idx, total_tasks, platform_progress) ==
    (idx * 100 + platform_progress) \div total_tasks

\* the except branch of run_import_task
ImportFailedUpdate(rec, error) ==
    [rec EXCEPT !.status = "failed", !.error = error, !.progress = 0]

\* "Mark complete"
ImportCompletedUpdate(rec, f) ==
    [rec EXCEPT !.status = "completed", !.progress = 100,
                !.total_fetched = f.total_fetched,
                !.new_games_added = f.new_games_added,
                !.duplicates_skipped = f.duplicates_skipped]

\* tasks_to_run
TasksToRun(chesscom_username, lichess_username) ==
    (IF chesscom_username # None THEN <<"chess.com">> ELSE <<>>)
      \o (IF lichess_username # None THEN <<"lichess">> ELSE <<>>)

\* the requests of the model
ImportUsernames == {None, Some("alice")}

\* POST /api/import
ImportGames(db_id, chesscom_username, lichess_username) ==
    /\ loop = Idle
    /\ IF db_id \notin metadata \/ (chesscom_username = None /\ lichess_username = None)
       THEN /\ response' = [op |-> "import", code |-> 400, task_id |-> 0, body |-> None]
            /\ UNCHANGED <<import_tasks, import_run>>
       ELSE LET task_id == NewTaskId(import_tasks) IN
            /\ task_id <= MaxTasks
            /\ import_tasks' = [t \in DOMAIN import_tasks \cup {task_id} |->
                                  IF t = task_id THEN NewImportTask ELSE import_tasks[t]]
            /\ import_run' = [import_run EXCEPT ![task_id] =
                                [ImportIdleFrame EXCEPT
                                    !.pc = "added", !.db_id = db_id,
                                    !.chesscom_username = chesscom_username,
                                    !.lichess_username = lichess_username]]
            /\ response' = [op |-> "import", code |-> 200, task_id |-> task_id,
                            body |-> None]
    /\ UNCHANGED <<metadata, databases, puzzle_tasks, issued, pending, scan, loop,
                   engine, inflight, handler>>

\* GET /api/import/status/{task_id}
ImportStatus(task_id) ==
    /\ loop = Idle
    /\ response' = IF task_id \notin DOMAIN import_tasks
                   THEN [op |-> "import_status", code |-> 404, task_id |-> task_id,
                         body |-> None]
                   ELSE [op |-> "import_status", code |-> 200, task_id |-> task_id,
                         body |-> Some(import_tasks[task_id])]
    /\ UNCHANGED <<metadata, databases, puzzle_tasks, issued, pending, scan, loop,
                   engine, inflight, handler, import_tasks, import_run>>

\* run_import_task from its start to the first await of the first fetcher
ImportBegin(t) ==
    LET f == import_run[t] IN
    /\ loop = Idle
    /\ f.pc = "added"
    /\ IF f.db_id \in metadata
       THEN /\ import_run' = [import_run EXCEPT ![t] =
                                [f EXCEPT !.pc = "fetching",
                                          !.tasks_to_run =
                                              TasksToRun(f.chesscom_username,
                                                         f.lichess_username),
                                          !.idx = 0, !.platform_progress = 0]]
            /\ UNCHANGED import_tasks
       ELSE /\ import_tasks' = [import_tasks EXCEPT ![t] =
                                  ImportFailedUpdate(@, "Database not found")]
            /\ import_run' = [import_run EXCEPT ![t] = ImportIdleFrame]
    /\ UNCHANGED <<metadata, databases, puzzle_tasks, issued, pending, scan, loop,
                   engine, inflight, handler, response>>

\* the fetcher reports its progress between two awaits
FetchProgress(t) ==
    LET f == import_run[t] IN
    /\ loop = Idle
    /\ f.pc = "fetching"
    /\ \E platform_progress \in PlatformSteps(f.tasks_to_run[f.idx + 1]) :
         /\ platform_progress > f.platform_progress
         /\ import_tasks' = [import_tasks EXCEPT ![t].progress =
                               Min(OverallProgress(f.idx, Len(f.tasks_to_run),
                                                   platform_progress), 99)]
         /\ import_run' = [import_run EXCEPT ![t].platform_progress = platform_progress]
    /\ UNCHANGED <<metadata, databases, puzzle_tasks, issued, pending, scan, loop,
                   engine, inflight, handler, response>>

\* fetch_games returns: the games are added to the GameStorage object the task
\* got at its start; then the next fetcher starts or, after the last one, the
\* count of the games is updated and the task marked complete, or failed when
\* the database is no longer registered.  (After a DELETE the object is no
\* store of the server any more; the counters kept for it are never written
\* to the record, since the task then fails.)
FetchReturn(t) ==
    LET f == import_run[t]
        registered == f.db_id \in metadata
    IN
    /\ loop = Idle
    /\ f.pc = "fetching"
    /\ \E games \in FetchedGames(f.tasks_to_run[f.idx + 1]) :
         LET acc == AddGames([ storage |-> IF registered THEN databases[f.db_id] ELSE <<>>,
                               total_fetched |-> f.total_fetched,
                               new_games_added |-> f.new_games_added,
                               duplicates_skipped |-> f.duplicates_skipped ],
                             games, 1)
             g == [f EXCEPT !.total_fetched = acc.total_fetched,
                            !.new_games_added = acc.new_games_added,
                            !.duplicates_skipped = acc.duplicates_skipped]
         IN
         /\ databases' = IF registered
                         THEN [databases EXCEPT ![f.db_id] = acc.storage]
                         ELSE databases
         /\ IF f.idx + 1 < Len(f.tasks_to_run)
            THEN /\ import_run' = [import_run EXCEPT ![t] =
                                     [g EXCEPT !.idx = @ + 1, !.platform_progress = 0]]
                 /\ UNCHANGED import_tasks
            ELSE /\ import_run' = [import_run EXCEPT ![t] = ImportIdleFrame]
                 /\ import_tasks' = [import_tasks EXCEPT ![t] =
                                       IF registered
                                       THEN ImportCompletedUpdate(@, g)
                                       ELSE ImportFailedUpdate(@, "Database not found")]
    /\ UNCHANGED <<metadata, puzzle_tasks, issued, pending, scan, loop, engine,
                   inflight, handler, response>>

InitImport ==
    /\ metadata = {"db_001"}
    /\ databases = [d \in {"db_001"} |-> ImportStore]
    /\ puzzle_tasks = <<>>
    /\ issued = {}
    /\ pending = {}
    /\ scan = [c \in CallIds |-> IdleFrame]
    /\ loop = Idle
    /\ engine = NoStr
    /\ inflight = {}
    /\ handler = NoHandler
    /\ response = NoResponse
    /\ import_tasks = <<>>
    /\ import_run = [t \in TaskIds |-> ImportIdleFrame]

NextImport ==
    \/ \E db_id \in ServerDbIds, chesscom_username \in ImportUsernames,
          lichess_username \in ImportUsernames :
            ImportGames(db_id, chesscom_username, lichess_username)
    \/ \E task_id \in TaskIds : ImportStatus(task_id)
    \/ \E db_id \in ServerDbIds : DeleteDatabase(db_id)
    \/ \E t \in TaskIds : ImportBegin(t)
    \/ \E t \in TaskIds : FetchProgress(t)
    \/ \E t \in TaskIds : FetchReturn(t)

SpecImport == InitImport /\ [][NextImport]_vars

----------------------------------------------------------------------------
(* The server *)

Init ==
    /\ metadata = {"db_001"}
    /\ databases = [d \in {"db_001"} |-> StoreGames(d)]
    /\ puzzle_tasks = <<>>
    /\ issued = {}
    /\ pending = {}
    /\ scan = [c \in CallIds |-> IdleFrame]
    /\ loop = Idle
    /\ engine = NoStr
    /\ inflight = {}
    /\ handler = NoHandler
    /\ response = NoResponse
    /\ import_tasks = <<>>
    /\ import_run = [t \in TaskIds |-> ImportIdleFrame]

Next ==
    \/ \E db_id \in ServerDbIds, username \in ServerUsernames,
          max_puzzles \in ServerMaxPuzzles : Start(db_id, username, max_puzzles)
    \/ \E task_id \in TaskIds : Poll(task_id)
    \/ \E db_id \in ServerDbIds : DeleteDatabase(db_id)
    \/ \E t \in TaskIds : RunTask(t)
    \/ \E t \in TaskIds : TaskComplete(t)
    \/ \E c \in CallIds : ScanStep(c)
    \/ AnalyzePositionCall
    \/ AnalyzePositionReturn
    \/ \E db_id \in ServerDbIds, color \in ExplorerColors,
          usernames \in ExplorerUsernames, fen \in ExplorerFens :
            ExplorerQuery(db_id, color, usernames, fen)
    \/ ExplorerTally
    \/ ExplorerEvalCall
    \/ ExplorerEvalReturn
    \/ ExplorerPositionCall
    \/ ExplorerPositionReturn

Spec == Init /\ [][Next]_vars

\* The server as the tasks see it: the requests that start a task or delete a
\* store, and the tasks themselves.
NextFair ==
    \/ \E db_id \in ServerDbIds, username \in ServerUsernames,
          max_puzzles \in ServerMaxPuzzles : Start(db_id, username, max_puzzles)
    \/ \E db_id \in ServerDbIds : DeleteDatabase(db_id)
    \/ \E t \in TaskIds : RunTask(t)
    \/ \E t \in TaskIds : TaskComplete(t)
    \/ \E c \in CallIds : ScanStep(c)

\* The scheduling of the event loop: a task added with add_task is run after the
\* response (the loop serves its ready callbacks in turn, so a task is not
\* passed over for ever by later requests), a coroutine that holds the thread
\* runs on to its end, and every call of the engine returns.
Fairness ==
    /\ \A t \in TaskIds : SF_vars(RunTask(t))
    /\ \A t \in TaskIds : WF_vars(ScanStep(t))
    /\ \A t \in TaskIds : WF_vars(TaskComplete(t))

SpecFair == Init /\ [][NextFair]_vars /\ Fairness

----------------------------------------------------------------------------
(* Properties of the task registry (specification Spec) *)

Terminal(rec) == rec.status \in {"completed", "failed"}

\* C1: the status of a task record only ever moves from running to completed
\* or from running to failed, and once a record is completed or failed no
\* step of the server (a progress write, a poll, the start or the run of
\* another task) changes its status, its puzzles payload or its error.
C1_TerminalIsFinal ==
    [][\A t \in DOMAIN puzzle_tasks :
          /\ t \in DOMAIN puzzle_tasks'
          /\ puzzle_tasks'[t].status # puzzle_tasks[t].status
               => /\ puzzle_tasks[t].status = "running"
                  /\ Terminal(puzzle_tasks'[t])
          /\ Terminal(puzzle_tasks[t])
               => /\ puzzle_tasks'[t].status = puzzle_tasks[t].status
                  /\ puzzle_tasks'[t].puzzles = puzzle_tasks[t].puzzles
                  /\ puzzle_tasks'[t].error = puzzle_tasks[t].error]_vars

\* a completed task that holds puzzles while another task's scan has written
\* its progress
C1_Witness ==
    \E t \in DOMAIN puzzle_tasks, u \in DOMAIN puzzle_tasks :
        /\ puzzle_tasks[t].status = "completed"
        /\ puzzle_tasks[t].puzzles # None
        /\ Len(puzzle_tasks[t].puzzles[1]) > 0
        /\ puzzle_tasks[u].status = "running"
        /\ puzzle_tasks[u].current_game >= 1

\* C2: the progress of a task never decreases, lies in 0..99 whenever the
\* status is running, and is 100 when and only when the status is completed.
C2_ProgressRange ==
    \A t \in DOMAIN puzzle_tasks :
        /\ puzzle_tasks[t].status = "running"
             => puzzle_tasks[t].progress \in 0..99
        /\ puzzle_tasks[t].progress = 100 <=> puzzle_tasks[t].status = "completed"

C2_ProgressMonotone ==
    /\ []C2_ProgressRange
    /\ [][\A t \in DOMAIN puzzle_tasks :
             /\ t \in DOMAIN puzzle_tasks'
             /\ puzzle_tasks'[t].progress >= puzzle_tasks[t].progress]_vars

\* a running task whose progress is strictly between 0 and 99
C2_Witness ==
    \E t \in DOMAIN puzzle_tasks :
        /\ puzzle_tasks[t].status = "running"
        /\ puzzle_tasks[t].progress > 0
        /\ puzzle_tasks[t].progress < 99

\* C3: a poll answers 404 if and only if its id was never returned by a start
\* call; start registers the record (running, progress 0, no puzzles, no
\* error) in the step that returns the id; records are never removed; and a
\* poll that fails changes nothing of the registry.
C3_Registered ==
    /\ DOMAIN puzzle_tasks = issued
    /\ response.op = "poll" =>
         /\ response.code \in {200, 404}
         /\ response.code = 404 <=> response.task_id \notin issued
    /\ (response.op = "start" /\ response.code = 200) =>
         response.task_id \in DOMAIN puzzle_tasks

C3_PollIffStarted ==
    /\ []C3_Registered
    /\ [][/\ issued \subseteq issued'
          /\ DOMAIN puzzle_tasks \subseteq DOMAIN puzzle_tasks'
          /\ \A t \in issued' \ issued :
               /\ response'.op = "start" /\ response'.task_id = t
               /\ puzzle_tasks'[t].status = "running"
               /\ puzzle_tasks'[t].progress = 0
               /\ puzzle_tasks'[t].puzzles = None
               /\ puzzle_tasks'[t].error = NoStr
          /\ (response' # response /\ response'.op = "poll")
               => UNCHANGED <<puzzle_tasks, issued, pending, scan>>]_vars

\* a poll of an id that no start returned has failed while another id is
\* registered
C3_Witness ==
    /\ response.op = "poll"
    /\ response.code = 404
    /\ issued # {}
    /\ response.task_id \notin issued

\* C4: a running scan does not block other callers: while the scan of a task
\* is under way a status poll of that task can be served.
C4_ScanLeavesPollsServed ==
    \A t \in TaskIds :
        (t \in DOMAIN puzzle_tasks /\ scan[t].pc \notin {"idle", "returned"})
            => ENABLED Poll(t)

\* C5: at most one call into the engine's analyze_position is in progress at
\* any time, across the puzzle scans, the explorer queries and the
\* position-analysis requests.
C5_OneEngineCall == Cardinality(inflight) <= 1

\* a scan is inside the engine while a second task waits to be run
C5_Witness ==
    \E t \in TaskIds : ScanOf(t) \in inflight /\ pending # {}

----------------------------------------------------------------------------
(* Properties of one scan (specification SpecScan) *)

\* the number of puzzles of `puzzles` taken from game `gid`
FromGame(puzzles, gid) == Cardinality({i \in 1..Len(puzzles) : puzzles[i].game_id = gid})

\* the ids of the games of the stores
GameIds == {"g1", "g2", "g3", "g4", "g5", "g6"}

\* C6: whatever the store, the oracle's answers and max_puzzles (0 included),
\* generate_puzzles_from_games never returns more than max_puzzles puzzles
\* and never more than two puzzles with the same game_id.
C6_Caps ==
    \A c \in CallIds :
        scan[c].pc = "returned" =>
            /\ Len(scan[c].puzzles) <= scan[c].max_puzzles
            /\ \A gid \in GameIds : FromGame(scan[c].puzzles, gid) <= 2

\* the frame of call c has classified a ply and not yet moved on
Classified(c) == scan[c].pc = "ply_end"

PlayerScore(white_cp, player_color) ==
    IF player_color = "white" THEN white_cp ELSE -white_cp

\* C8: every evaluation stored in a puzzle is from the perspective of the
\* puzzle's player, white or black alike, and the loss of the played move is
\* the player-perspective evaluation before the move minus the one after it.
C8_PlayerPerspective ==
    \A c \in CallIds :
        (Classified(c) /\ scan[c].locals.puzzle # NoPuzzle) =>
            LET f == scan[c]
                puzzle == f.locals.puzzle
                before == PlayerScore(f.locals.position_analysis.score_cp,
                                      f.player_color)
                afterBest == PlayerScore(f.locals.best_move_analysis.score_cp,
                                         f.player_color)
                afterPlayed == PlayerScore(f.locals.played_move_analysis.score_cp,
                                           f.player_color)
            IN
            /\ puzzle.position_eval_cp = before
            /\ puzzle.best_move_eval_cp = afterBest
            /\ puzzle.puzzle_type = "mistake" =>
                  /\ puzzle.played_move_eval_cp = Some(afterPlayed)
                  /\ puzzle.eval_loss_cp = before - afterPlayed

\* every puzzle a call holds, collected or returned
Puzzles == UNION {{scan[c].puzzles[i] : i \in 1..Len(scan[c].puzzles)} : c \in CallIds}

\* C9: a puzzle with loss below 300 is easy, from 300 to 599 medium, from 600
\* hard; a tactical puzzle is always easy; and a ply with before 50, after
\* the best move 40, after the played move -80 and a played move that is not
\* the best one is a mistake of loss 130, easy.
C9_Difficulty ==
    /\ \A puzzle \in Puzzles :
          /\ puzzle.eval_loss_cp < 300 <=> puzzle.difficulty = "easy"
          /\ puzzle.eval_loss_cp \in 300..599 <=> puzzle.difficulty = "medium"
          /\ puzzle.eval_loss_cp >= 600 <=> puzzle.difficulty = "hard"
          /\ puzzle.puzzle_type = "tactical" => puzzle.difficulty = "easy"
    /\ \A c \in CallIds :
          ( /\ Classified(c)
            /\ PositionEvalCp(scan[c]) = 50
            /\ BestMoveEvalCp(scan[c]) = 40
            /\ PlayedMoveEvalCp(scan[c]) = -80
            /\ CurPos(scan[c]).move # scan[c].locals.position_analysis.best_move )
          => /\ scan[c].locals.puzzle_type = "mistake"
             /\ scan[c].locals.eval_loss = 130
             /\ scan[c].locals.difficulty = "easy"

\* the ply of the example has been classified and its puzzle collected
C9_Witness ==
    \E c \in CallIds :
        /\ Classified(c)
        /\ PositionEvalCp(scan[c]) = 50
        /\ BestMoveEvalCp(scan[c]) = 40
        /\ PlayedMoveEvalCp(scan[c]) = -80
        /\ scan[c].locals.puzzle \in Puzzles
        /\ scan[c].locals.puzzle.eval_loss_cp = 130
        /\ scan[c].locals.puzzle.difficulty = "easy"

\* C10: played_move, played_move_san and played_move_eval_cp are present
\* exactly when the puzzle is a mistake; eval_loss_cp is 0 exactly when the
\* puzzle is tactical and at least 100 when it is a mistake; and the played
\* move of a mistake differs from its best move.
C10_PuzzleFields ==
    \A puzzle \in Puzzles :
        /\ puzzle.puzzle_type \in {"mistake", "tactical"}
        /\ puzzle.played_move # NoStr <=> puzzle.puzzle_type = "mistake"
        /\ puzzle.played_move_san # NoStr <=> puzzle.puzzle_type = "mistake"
        /\ puzzle.played_move_eval_cp # None <=> puzzle.puzzle_type = "mistake"
        /\ puzzle.eval_loss_cp = 0 <=> puzzle.puzzle_type = "tactical"
        /\ puzzle.puzzle_type = "mistake" =>
              /\ puzzle.eval_loss_cp >= 100
              /\ puzzle.played_move # puzzle.best_move

\* a call has returned a mistake and a tactical opportunity
C10_Witness ==
    \E c \in CallIds :
        /\ scan[c].pc = "returned"
        /\ \E i, j \in 1..Len(scan[c].puzzles) :
              /\ scan[c].puzzles[i].puzzle_type = "mistake"
              /\ scan[c].puzzles[j].puzzle_type = "tactical"

----------------------------------------------------------------------------
(* Properties of the replay and of the oracle calls of one scan *)

\* the stored game with this id, in the store of call c
StoredGame(c, gid) ==
    LET games == databases[scan[c].storage]
    IN games[CHOOSE i \in 1..Len(games) : games[i].game_id = gid]

\* the record of the game holds a move that cannot be played
HasIllegalMove(g) == \E i \in 1..Len(g.pgn) : g.pgn[i] \in IllegalMoves

\* C11: a game whose recorded moves contain an illegal move is excluded
\* entirely from a puzzle scan: no puzzle is taken from it (no legal prefix of
\* it is used), though it is counted among the games examined.
C11_IllegalGameExcluded ==
    \A c \in CallIds :
        \A puzzle \in {scan[c].puzzles[i] : i \in 1..Len(scan[c].puzzles)} :
            ~HasIllegalMove(StoredGame(c, puzzle.game_id))

\* C12: if any of the three oracle calls made for a sampled ply fails, no
\* puzzle is emitted for that ply.
C12_FailedCallNoPuzzle ==
    \A c \in CallIds :
        ( /\ Classified(c)
          /\ \/ scan[c].locals.position_analysis.error
             \/ scan[c].locals.best_move_analysis.error
             \/ scan[c].locals.played_move_analysis.error )
        => scan[c].locals.puzzle = NoPuzzle

\* the frame of call c is inside the loop over the sampled plies of a game
InGame(c) ==
    scan[c].pc \in {"ply_loop", "call_before", "got_before", "call_best", "got_best",
                    "call_played", "got_played", "ply_end"}

\* the frame of call c is inside an oracle call or between the calls of a ply
Evaluating(c) ==
    scan[c].pc \in {"call_before", "got_before", "call_best", "got_best",
                    "call_played", "got_played", "ply_end"}

NeedsOracle(f) ==
    /\ Len(f.user_games) > 0
    /\ Len(UserPositions(f.user_games[1], PlayerColor(f.user_games[1], f.username),
                         f.min_ply, f.max_ply)) > 0

\* C13: if the engine cannot be started when a puzzle scan begins, the task
\* ends failed with an error and never completed: a task whose scan had a ply
\* to evaluate is marked completed only with the engine started.
C13_UnavailableOracleFails ==
    [][\A t \in TaskIds :
          ( /\ t \in DOMAIN puzzle_tasks
            /\ puzzle_tasks[t].status = "running"
            /\ puzzle_tasks'[t].status = "completed"
            /\ NeedsOracle(scan[t]) )
          => engine = "up"]_vars

----------------------------------------------------------------------------
(* Properties of the opening explorer (specification SpecExplorer) *)

\* the handler holds the tallies of find_continuations
Tallied == handler.op = "explorer" /\ handler.pc \in {"eval_loop", "call_move", "call_position"}

\* find_continuations has returned its sorted list to explorer_query
Returned == handler.op = "explorer" /\ handler.pc = "call_position"

\* the store of the query holds the single game G, the usernames are G's
\* player of the queried colour, and G reaches the target before its last move
SingleGameQuery ==
    LET games == databases[handler.db_id] IN
    /\ Len(games) = 1
    /\ ~HasIllegalMove(games[1])
    /\ handler.usernames = << IF handler.color = "white" THEN games[1].white_player
                              ELSE games[1].black_player >>
    /\ \E k \in 0..(Len(games[1].pgn) - 1) :
          Placement(SubSeq(games[1].pgn, 1, k)) = Placement(handler.fen)

\* C14: on a store of a single game G, find_continuations with G's player of
\* the queried colour as usernames and a target G reaches before its last move
\* yields exactly one continuation, of count 1: a white win is one win for
\* white, a black win is one loss for white and one win for black.
C14_SingleGameTally ==
    (Tallied /\ SingleGameQuery) =>
        LET G == databases[handler.db_id][1]
            won == IF handler.color = "white" THEN G.result = "1-0" ELSE G.result = "0-1"
            lost == IF handler.color = "white" THEN G.result = "0-1" ELSE G.result = "1-0"
        IN /\ Len(handler.result) = 1
           /\ handler.result[1].count = 1
           /\ handler.result[1].wins = (IF won THEN 1 ELSE 0)
           /\ handler.result[1].losses = (IF lost THEN 1 ELSE 0)
           /\ handler.result[1].draws = (IF ~won /\ ~lost THEN 1 ELSE 0)

\* the single game is a black win and the query is made for black
C14_Witness ==
    /\ Returned
    /\ SingleGameQuery
    /\ handler.color = "black"
    /\ databases[handler.db_id][1].result = "0-1"
    /\ handler.result[1].wins = 1

\* C15: every continuation find_continuations returns has count >= 1 and
\* wins + draws + losses = count, and its three percentages, each rounded to
\* one decimal, add up to 100 within 0.2 (in tenths: 1000 within 2).
C15_Percentages ==
    Returned =>
        \A i \in 1..Len(handler.result) :
            LET c == handler.result[i]
                sum == c.win_pct + c.draw_pct + c.loss_pct
            IN /\ c.count >= 1
               /\ c.wins + c.draws + c.losses = c.count
               /\ sum - 1000 <= 2
               /\ 1000 - sum <= 2

\* a returned continuation whose percentages add up to 100.1
C15_Witness ==
    /\ Returned
    /\ \E i \in 1..Len(handler.result) :
          handler.result[i].win_pct + handler.result[i].draw_pct
              + handler.result[i].loss_pct = 1001

\* C17: when the oracle fails on the position after a continuation, the
\* continuation is kept with its evaluation marked "N/A", never a number.
C17_FailedEvalUnavailable ==
    ( /\ handler.op = "explorer"
      /\ handler.pc = "eval_loop"
      /\ handler.idx > 1
      /\ handler.move_eval.error )
    => handler.result[handler.idx - 1].stockfish_eval = <<"N/A">>

\* C18: when the engine cannot be started for the evaluation of the target
\* position, explorer_query still answers with the continuations found and
\* an empty position evaluation.
C18_PartialResult ==
    [][( /\ handler.op = "explorer"
         /\ handler.pc = "eval_loop"
         /\ handler.idx > Len(handler.result)
         /\ handler' = NoHandler )
       => /\ response'.op = "explorer"
          /\ response'.code = 200
          /\ response'.body # None
          /\ response'.body[1].continuations = SortByCount(handler.result)]_vars

----------------------------------------------------------------------------
(* Properties of classify_time_control (specification SpecClassify) *)

\* the call on this string has returned this class
Classifies(str, class) ==
    (handler.op = "classify" /\ handler.pc = "returned" /\ handler.time_control_str = str)
        => handler.classified = class

\* C16 as stated: "180+0" is bullet, "3+0" blitz, "600" rapid,
\* "correspondence" correspondence and "garbage" blitz.
C16_ExamplesAsStated ==
    /\ Classifies(<<"1", "8", "0", "+", "0">>, "bullet")
    /\ Classifies(<<"3", "+", "0">>, "blitz")
    /\ Classifies(<<"6", "0", "0">>, "rapid")
    /\ Classifies(<<"c", "o", "r", "r", "e", "s", "p", "o", "n", "d", "e", "n", "c", "e">>,
                  "correspondence")
    /\ Classifies(<<"g", "a", "r", "b", "a", "g", "e">>, "blitz")

\* C16, amended: "180+0" is blitz (180 seconds are not under 3 minutes), like
\* "3+0"; "600" is rapid, "correspondence" correspondence, "garbage" blitz.
C16_Examples ==
    /\ Classifies(<<"1", "8", "0", "+", "0">>, "blitz")
    /\ Classifies(<<"3", "+", "0">>, "blitz")
    /\ Classifies(<<"6", "0", "0">>, "rapid")
    /\ Classifies(<<"c", "o", "r", "r", "e", "s", "p", "o", "n", "d", "e", "n", "c", "e">>,
                  "correspondence")
    /\ Classifies(<<"g", "a", "r", "b", "a", "g", "e">>, "blitz")

\* the call on "180+0" has returned blitz
C16_Witness ==
    /\ handler.op = "classify"
    /\ handler.pc = "returned"
    /\ handler.time_control_str = <<"1", "8", "0", "+", "0">>
    /\ handler.classified = "blitz"

----------------------------------------------------------------------------
(* Termination of the puzzle tasks (specification SpecFair) *)

\* call c takes up the game at game_idx: the head of one iteration of the loop
VisitsGame(c) == scan[c].pc = "game_loop" /\ scan'[c].pc = "ply_loop"

\* call c enters engine.analyse
CallsOracle(c) == ScanOf(c) \notin inflight /\ ScanOf(c) \in inflight'

\* call c has as many puzzles as it was asked for
Collected(f) == Len(f.puzzles) >= f.max_puzzles

\* call c is inside the loop over the games, before and after the step
Scanning(c) ==
    /\ scan[c].pc \notin {"idle", "called"}
    /\ scan'[c].pc \notin {"idle", "called"}

\* C19: when every call of the oracle returns, every started task eventually
\* is completed or failed.  The scan goes through the user's games in one pass:
\* the games of the list are distinct, the index of the game never goes back
\* and moves on by one between two visits; it takes up no further game and
\* makes no further call of the oracle once max_puzzles puzzles are collected,
\* and it leaves the loop only when all games are scanned or max_puzzles
\* puzzles are collected.
C19_TasksTerminate ==
    /\ \A t \in TaskIds :
         (t \in issued) ~> (t \in DOMAIN puzzle_tasks /\ Terminal(puzzle_tasks[t]))
    /\ [][\A c \in CallIds :
            LET f == scan[c] IN
            /\ Scanning(c) =>
                 /\ scan'[c].user_games = f.user_games
                 /\ \A i, j \in 1..Len(f.user_games) :
                      f.user_games[i].game_id = f.user_games[j].game_id => i = j
                 /\ scan'[c].game_idx \in {f.game_idx, f.game_idx + 1}
                 /\ (f.pc # "game_loop" /\ scan'[c].pc = "game_loop")
                      => scan'[c].game_idx = f.game_idx + 1
                 /\ VisitsGame(c) =>
                      /\ scan'[c].game_idx = f.game_idx
                      /\ f.game_idx < Len(f.user_games)
                      /\ scan'[c].games_analyzed = f.game_idx + 1
                 /\ (f.pc # "finish" /\ scan'[c].pc = "finish")
                      => (f.game_idx >= Len(f.user_games) \/ Collected(f))
            /\ VisitsGame(c) => ~Collected(f)
            /\ CallsOracle(c) => ~Collected(f)]_vars

\* a task is completed with a puzzle, having stopped before the last game of
\* the user
C19_Witness ==
    \E t \in DOMAIN puzzle_tasks :
        /\ puzzle_tasks[t].status = "completed"
        /\ Len(puzzle_tasks[t].puzzles[1]) >= 1
        /\ puzzle_tasks[t].current_game + 1 < puzzle_tasks[t].total_games

----------------------------------------------------------------------------
(* The difficulty filter (specification SpecScan) *)

\* call c has just left the classification of a ply with a candidate that the
\* filter of the call rejects
Rejected(c) ==
    /\ scan[c].pc = "got_played"
    /\ scan'[c].pc = "ply_end"
    /\ scan'[c].locals.puzzle_type # NoStr
    /\ ~PassesFilter(scan'[c].locals.difficulty, scan[c].difficulty_filter)

\* C21: with a non-empty difficulty filter every puzzle of the list has a
\* difficulty of the filter; a candidate the filter rejects has a type and a
\* difficulty (it was classified) and leaves the list of puzzles and the count
\* of the puzzles of the game as they were.
C21_DifficultyFilter ==
    [][\A c \in CallIds :
          /\ Len(scan'[c].difficulty_filter) > 0 =>
               \A i \in 1..Len(scan'[c].puzzles) :
                  \E k \in 1..Len(scan'[c].difficulty_filter) :
                     scan'[c].difficulty_filter[k] = scan'[c].puzzles[i].difficulty
          /\ Rejected(c) =>
               /\ scan'[c].locals.puzzle_type \in {"mistake", "tactical"}
               /\ scan'[c].locals.difficulty \in {"easy", "medium", "hard"}
               /\ scan'[c].locals.puzzle = NoPuzzle
               /\ scan'[c].puzzles = scan[c].puzzles
               /\ scan'[c].puzzles_this_game = scan[c].puzzles_this_game]_vars

\* a candidate of difficulty easy was rejected by the filter medium/hard in a
\* call that goes on to return a puzzle
C21_Witness ==
    \E c \in CallIds :
        /\ scan[c].pc = "ply_end"
        /\ scan[c].difficulty_filter = <<"medium", "hard">>
        /\ scan[c].locals.puzzle_type # NoStr
        /\ scan[c].locals.difficulty = "easy"
        /\ scan[c].locals.puzzle = NoPuzzle
        /\ Len(scan[c].puzzles) >= 1

----------------------------------------------------------------------------
(* The counters of a puzzle task (specification Spec) *)

\* C22: the record of a task whose scan is inside a game shows the number of
\* the games finished before it and the puzzles found in them, and once the
\* scan has left the loop over the games the record shows the number of the
\* games examined (the total after the last game) and all puzzles found, the
\* ones of the last game included.
C22_ProgressAfterEachGame ==
    \A t \in TaskIds :
        LET f == scan[t] IN
        (f.progress_callback /\ Len(f.user_games) > 0) =>
            /\ f.pc \in {"ply_loop", "call_before"} =>
                 /\ puzzle_tasks[t].current_game = f.game_idx
                 /\ puzzle_tasks[t].total_games = Len(f.user_games)
            /\ f.pc = "finish" =>
                 /\ puzzle_tasks[t].current_game = f.games_analyzed
                 /\ puzzle_tasks[t].puzzles_found = Len(f.puzzles)
                 /\ f.game_idx >= Len(f.user_games)
                      => puzzle_tasks[t].current_game = puzzle_tasks[t].total_games

\* C27: the step that marks a task completed leaves a record whose
\* puzzles_found is the number of the puzzles of its payload and whose
\* current_game is the number of the games the scan examined, which is
\* total_games when the scan went through all games.
C27_CountersAgree ==
    [][\A t \in TaskIds :
          (/\ t \in DOMAIN puzzle_tasks
           /\ puzzle_tasks[t].status = "running"
           /\ puzzle_tasks'[t].status = "completed") =>
              /\ puzzle_tasks'[t].puzzles_found = Len(puzzle_tasks'[t].puzzles[1])
              /\ puzzle_tasks'[t].current_game = scan[t].games_analyzed
              /\ scan[t].game_idx >= Len(scan[t].user_games)
                   => puzzle_tasks'[t].current_game = puzzle_tasks'[t].total_games]_vars

----------------------------------------------------------------------------
(* The filter and the order of find_continuations (specification SpecExplorer) *)

\* the indices of the stored games whose player of the queried colour is one
\* of the usernames, ignoring case (all games when no username is given)
Passing ==
    LET games == databases[handler.db_id] IN
    { i \in 1..Len(games) :
        Len(handler.usernames) > 0 =>
            \E u \in 1..Len(handler.usernames) :
                Lower(handler.usernames[u]) =
                    Lower(IF handler.color = "white" THEN games[i].white_player
                          ELSE games[i].black_player) }

\* game i shows the target's placement first at ply k of its replay and goes
\* on with the move `san`
ContinuesWith(i, k, san) ==
    LET pgn == Mainline(databases[handler.db_id][i].pgn) IN
    /\ k < Len(pgn)
    /\ Placement(SubSeq(pgn, 1, k)) = Placement(handler.fen)
    /\ \A j \in 0..(k - 1) : Placement(SubSeq(pgn, 1, j)) # Placement(handler.fen)
    /\ San(pgn[k + 1]) = san

RECURSIVE SumCounts(_)
SumCounts(result) ==
    IF Len(result) = 0 THEN 0 ELSE result[1].count + SumCounts(Tail(result))

\* C23: the count of every continuation is the number of the games that pass
\* the filter on the usernames (the player of the queried colour, ignoring
\* case) and go on with that move from the first position of their replay
\* that shows the target's placement; no move is listed twice, and the counts
\* add up to no more than the number of the games passing the filter.
C23_OneOccurrencePerGame ==
    Tallied =>
        LET games == databases[handler.db_id] IN
        /\ \A n \in 1..Len(handler.result) :
              /\ handler.result[n].count =
                   Cardinality({ i \in Passing :
                                   \E k \in 0..Len(games[i].pgn) :
                                       ContinuesWith(i, k, handler.result[n].move) })
              /\ \A m \in 1..Len(handler.result) :
                    handler.result[m].move = handler.result[n].move => m = n
        /\ SumCounts(handler.result) <= Cardinality(Passing)

\* a query for white with the usernames zed and ALICE on a store of games
\* Alice played as white: all games pass, and one of them does not show the
\* target
C23_Witness ==
    /\ Returned
    /\ handler.usernames = <<"zed", "ALICE">>
    /\ handler.color = "white"
    /\ Len(databases[handler.db_id]) >= 3
    /\ Cardinality(Passing) = Len(databases[handler.db_id])
    /\ SumCounts(handler.result) >= 2
    /\ SumCounts(handler.result) < Cardinality(Passing)

\* the index of the first game passing the filter that goes on with `san`
FirstSeen(san) ==
    LET games == databases[handler.db_id]
        with == { i \in Passing : \E k \in 0..Len(games[i].pgn) : ContinuesWith(i, k, san) }
    IN CHOOSE i \in with : \A j \in with : i <= j

\* C25: in the list find_continuations returns, a continuation never has a
\* smaller count than one after it, and of two continuations of equal count
\* the one whose move was met first in the scan of the games comes first.
C25_SortedByCount ==
    Returned =>
        \A a, b \in 1..Len(handler.result) :
            a < b =>
                /\ handler.result[a].count >= handler.result[b].count
                /\ handler.result[a].count = handler.result[b].count
                     => FirstSeen(handler.result[a].move) < FirstSeen(handler.result[b].move)

\* three continuations are returned, the most played one met second in the
\* scan, the two others of equal count
C25_Witness ==
    /\ Returned
    /\ Len(handler.result) = 3
    /\ handler.result[1].count > handler.result[2].count
    /\ handler.result[2].count = handler.result[3].count
    /\ FirstSeen(handler.result[2].move) < FirstSeen(handler.result[1].move)

----------------------------------------------------------------------------
(* The game store under scans and queries (specification Spec) *)

\* the step is one of a puzzle scan or of an explorer query
ReaderStep ==
    \/ \E t \in TaskIds : loop = ScanOf(t) \/ loop' = ScanOf(t)
    \/ loop = HandlerOf("explorer") \/ loop' = HandlerOf("explorer")

\* C26: no step of a puzzle scan or of an explorer query changes the registered
\* stores or the games of a store, their order and their fields included,
\* whether the operation goes on, returns or fails.
C26_StoreUnchanged ==
    [][ReaderStep => (databases' = databases /\ metadata' = metadata)]_vars

\* a scan has returned after going through the games in another order than
\* the store's, and the store is as it was
C26_Witness ==
    \E t \in TaskIds :
        /\ scan[t].pc = "returned"
        /\ Len(scan[t].user_games) = 2
        /\ scan[t].user_games[1].game_id = "g2"
        /\ scan[t].user_games[2].game_id = "g1"
        /\ databases["db_001"] = StoreGames("db_001")

----------------------------------------------------------------------------
(* The rule of classify_time_control (specification SpecClassify) *)

\* the string names correspondence play
NamesCorrespondence(str) ==
    \/ Contains(str, <<"c", "o", "r", "r", "e", "s", "p", "o", "n", "d", "e", "n", "c", "e">>)
    \/ Contains(str, <<"d", "a", "i", "l", "y">>)

\* the class the rule gives to a base of b: minutes when b < 60, else seconds
RuleClass(b) ==
    LET seconds == IF b < 60 THEN 60 * b ELSE b IN
    IF seconds < 180 THEN "bullet"
    ELSE IF seconds < 600 THEN "blitz"
    ELSE IF seconds < 1800 THEN "rapid"
    ELSE "classical"

\* the call has returned
Classed == handler.op = "classify" /\ handler.pc = "returned"

\* C24 as stated: a string that contains "correspondence" or "daily" gives
\* correspondence; any other string gives the class of the rule when its base
\* is a non-negative integer, and blitz when its base is not an integer.
C24_RuleAsStated ==
    Classed =>
        LET str == handler.time_control_str
            base == BeforePlus(str)
        IN /\ NamesCorrespondence(str) => handler.classified = "correspondence"
           /\ ~NamesCorrespondence(str) =>
                /\ \A b \in TimeBases :
                      base = ToChars(b) => handler.classified = RuleClass(b)
                /\ ParseInt(base) = None => handler.classified = "blitz"

\* C24, amended: a string that contains "correspondence" or "daily" in any
\* mix of upper and lower case gives correspondence; any other string gives
\* the class of the rule when its base is a non-negative integer, and blitz
\* when its base is not an integer.
C24_Rule ==
    Classed =>
        LET str == handler.time_control_str
            base == BeforePlus(str)
        IN /\ NamesCorrespondence(LowerStr(str)) => handler.classified = "correspondence"
           /\ ~NamesCorrespondence(LowerStr(str)) =>
                /\ \A b \in TimeBases :
                      base = ToChars(b) => handler.classified = RuleClass(b)
                /\ ParseInt(base) = None => handler.classified = "blitz"

\* the call on "Daily" has returned correspondence
C24_Witness ==
    /\ Classed
    /\ handler.time_control_str = <<"D", "a", "i", "l", "y">>
    /\ handler.classified = "correspondence"

----------------------------------------------------------------------------
(* The puzzles of one call (specification SpecScan) *)

\* C28: at every point of a call of generate_puzzles_from_games, and so in
\* the list it returns, no two puzzles have the same game_id and the same ply.
C28_DistinctPuzzles ==
    \A c \in CallIds :
        \A i, j \in 1..Len(scan[c].puzzles) :
            (/\ scan[c].puzzles[i].game_id = scan[c].puzzles[j].game_id
             /\ scan[c].puzzles[i].ply = scan[c].puzzles[j].ply) => i = j

\* a call has returned two puzzles of the same game
C28_Witness ==
    \E c \in CallIds :
        /\ scan[c].pc = "returned"
        /\ Len(scan[c].puzzles) >= 2
        /\ scan[c].puzzles[1].game_id = scan[c].puzzles[2].game_id
        /\ scan[c].puzzles[1].ply # scan[c].puzzles[2].ply

----------------------------------------------------------------------------
(* The progress of an import task (specification SpecImport) *)

\* C29: in no step does the progress of an import task decrease, the step
\* that marks the task failed included, and the progress of a running task
\* is at most 99.
C29_ImportProgressMonotone ==
    [][\A t \in DOMAIN import_tasks :
          /\ import_tasks'[t].progress >= import_tasks[t].progress
          /\ import_tasks'[t].status = "running" => import_tasks'[t].progress <= 99]_vars

----------------------------------------------------------------------------
(* The explorer on an unknown database (specification Spec) *)

\* C30: an explorer query for a db_id that is not registered is answered with
\* status 400, with no game replayed and no call of the engine: the handler
\* does not take the event loop, and the engine is left as it was.
C30_UnknownDatabaseRejected ==
    [][\A db_id \in ServerDbIds :
          (/\ db_id \notin metadata
           /\ \E color \in ExplorerColors, usernames \in ExplorerUsernames,
                 fen \in ExplorerFens : ExplorerQuery(db_id, color, usernames, fen))
            => /\ response'.op = "explorer"
               /\ response'.code = 400
               /\ handler' = NoHandler
               /\ loop' = Idle
               /\ UNCHANGED <<engine, inflight>>]_vars

====
